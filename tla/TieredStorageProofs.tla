------------------------ MODULE TieredStorageProofs ------------------------
(***************************************************************************)
(* Proofs about TieredStorage, for every set of keys, payloads, tiers,     *)
(* capacities, ratio, tenants and weights.                                 *)
(***************************************************************************)
EXTENDS TieredStorageCalls, FiniteSetTheorems, NaturalsInduction, TLAPS

----------------------------------------------------------------------------
(* The bytes of a set of blocks *)

\* A payload has a size, in bytes.
LEMMA SizeType == \A p \in Payload : Size[p] \in Nat
BY PayloadAssumption

\* The byte sets that the accounting of used_bytes_ speaks of are finite.
LEMMA ByteSetFinite ==
  ASSUME NEW B, NEW S
  PROVE  /\ IsFiniteSet(ByteSet(B, S))
         /\ Cardinality(ByteSet(B, S)) \in Nat
<1>1. IsFiniteSet(Key \X (1..MaxSize))
  <2>1. 1 \in Int /\ MaxSize \in Int
    BY PayloadAssumption
  <2>2. IsFiniteSet(1..MaxSize)
    BY <2>1, FS_Interval
  <2> QED BY <2>2, FS_Product, KeyAssumption
<1>2. ByteSet(B, S) \in SUBSET (Key \X (1..MaxSize))
  BY DEF ByteSet
<1> QED BY <1>1, <1>2, FS_Subset, FS_CardinalityType

\* No blocks, no bytes.
LEMMA ByteSetEmpty ==
  ASSUME NEW B
  PROVE  Cardinality(ByteSet(B, {})) = 0
<1>1. ByteSet(B, {}) = {}
  BY DEF ByteSet
<1> QED BY <1>1, FS_EmptySet

\* Taking one block out takes exactly its size out (size_bytes in
\* RemoveLocked).
LEMMA ByteSetSplit ==
  ASSUME NEW B, NEW S, NEW k \in Key, k \in S, B[k].payload \in Payload
  PROVE  Cardinality(ByteSet(B, S)) =
           Cardinality(ByteSet(B, S \ {k})) + Size[B[k].payload]
<1> DEFINE n == Size[B[k].payload]
           own == {k} \X (1..n)
           rest == ByteSet(B, S \ {k})
<1>1. n \in Nat /\ n <= MaxSize /\ MaxSize \in Nat
  BY PayloadAssumption
<1>2. IsFiniteSet(own) /\ Cardinality(own) = n
  <2>1. IsFiniteSet(1..n) /\ Cardinality(1..n) = n
    <3> HIDE DEF n
    <3>1. 1 \in Int /\ n \in Int
      BY <1>1
    <3>2. /\ IsFiniteSet(1..n)
          /\ Cardinality(1..n) = IF 1 > n THEN 0 ELSE n - 1 + 1
      BY <3>1, FS_Interval
    <3> QED BY <1>1, <3>2
  <2>2. IsFiniteSet({k}) /\ Cardinality({k}) = 1
    BY FS_Singleton
  <2>3. IsFiniteSet({k} \X (1..n)) /\ Cardinality({k} \X (1..n)) = Cardinality({k}) * Cardinality(1..n)
    BY <2>1, <2>2, FS_Product
  <2> QED BY <2>1, <2>2, <2>3, <1>1
<1>3. ByteSet(B, S) = rest \cup own
  <2>1. ASSUME NEW u \in ByteSet(B, S) PROVE u \in rest \cup own
    BY <1>1 DEF ByteSet
  <2>2. ASSUME NEW u \in rest PROVE u \in ByteSet(B, S)
    BY DEF ByteSet
  <2>3. ASSUME NEW u \in own PROVE u \in ByteSet(B, S)
    BY <1>1 DEF ByteSet
  <2> QED BY <2>1, <2>2, <2>3
<1>4. rest \cap own = {}
  BY DEF ByteSet
<1>5. IsFiniteSet(rest) /\ Cardinality(rest) \in Nat
  BY ByteSetFinite
<1>6. Cardinality(rest \cup own) =
        Cardinality(rest) + Cardinality(own) - Cardinality(rest \cap own)
  BY <1>2, <1>5, FS_Union
<1>7. Cardinality(rest \cap own) = 0
  BY <1>4, FS_EmptySet
<1> QED BY <1>1, <1>2, <1>3, <1>5, <1>6, <1>7

\* The bytes of a set depend on the payloads of its keys only.
LEMMA ByteSetAgree ==
  ASSUME NEW B, NEW C, NEW S, \A j \in S : B[j].payload = C[j].payload
  PROVE  ByteSet(B, S) = ByteSet(C, S)
BY DEF ByteSet

----------------------------------------------------------------------------
(* The configuration *)

\* A non-empty set of tiers has a fastest and a slowest member.
LEMMA TierMinMax ==
  ASSUME NEW S \in SUBSET Tier, S # {}
  PROVE  /\ Min(S) \in S /\ Max(S) \in S
         /\ \A y \in S : Min(S) <= y
<1>1. \E x \in S : \A y \in S : x <= y
  <2>1. CASE 0 \in S
    BY <2>1 DEF Tier
  <2>2. CASE 0 \notin S /\ 1 \in S
    BY <2>2 DEF Tier
  <2>3. CASE 0 \notin S /\ 1 \notin S
    <3>1. \A x \in S : x = 2
      BY <2>3 DEF Tier
    <3> QED BY <3>1
  <2> QED BY <2>1, <2>2, <2>3
<1>2. \E x \in S : \A y \in S : x >= y
  <2>1. CASE 2 \in S
    BY <2>1 DEF Tier
  <2>2. CASE 2 \notin S /\ 1 \in S
    BY <2>2 DEF Tier
  <2>3. CASE 2 \notin S /\ 1 \notin S
    <3>1. \A x \in S : x = 0
      BY <2>3 DEF Tier
    <3> QED BY <3>1
  <2> QED BY <2>1, <2>2, <2>3
<1> QED BY <1>1, <1>2 DEF Min, Max

\* NextSlowerConfigured is empty or a configured, strictly slower tier.
LEMMA NextSlowerType ==
  ASSUME NEW t \in Tier
  PROVE  /\ NextSlowerConfigured(t) \in Configured \cup {NoTier}
         /\ NextSlowerConfigured(t) > t
<1> DEFINE slower == {u \in Configured : u > t}
<1>1. slower \in SUBSET Tier
  BY TierAssumption
<1>2. CASE slower = {}
  BY <1>2 DEF NextSlowerConfigured, NoTier, Tier
<1>3. CASE slower # {}
  <2>1. Min(slower) \in slower
    BY <1>1, <1>3, TierMinMax
  <2> QED BY <1>1, <1>3, <2>1 DEF NextSlowerConfigured
<1> QED BY <1>2, <1>3

\* ResolveConfiguredTier is empty or a configured tier.
LEMMA ResolveType ==
  ASSUME NEW t \in Tier
  PROVE  ResolveConfiguredTier(t) \in Configured \cup {NoTier}
<1> DEFINE faster == {u \in Configured : u < t}
<1>1. faster \in SUBSET Tier
  BY TierAssumption
<1>2. faster # {} => Max(faster) \in Configured
  BY <1>1, TierMinMax
<1> QED BY <1>2, NextSlowerType DEF ResolveConfiguredTier

\* The fastest tier is configured unless none is, and no configured tier is
\* faster.
LEMMA FastestType ==
  /\ Fastest \in Configured \cup {NoTier}
  /\ Configured \subseteq Tier
  /\ NoTier \notin Configured
  /\ \A t \in Configured : Fastest <= t
<1>1. 0 \in Tier
  BY DEF Tier
<1>2. Fastest \in Configured \cup {NoTier}
  BY <1>1, ResolveType DEF Fastest
<1>3. Configured \subseteq Tier /\ NoTier \notin Configured
  BY TierAssumption DEF Tier, NoTier
<1>4. ASSUME NEW t \in Configured PROVE Fastest <= t
  <2> DEFINE slower == {u \in Configured : u > 0}
  <2>1. CASE 0 \in Configured
    BY <1>3, <2>1 DEF Fastest, ResolveConfiguredTier, Tier
  <2>2. CASE 0 \notin Configured
    <3>1. Fastest = NextSlowerConfigured(0)
      <4>1. {u \in Configured : u < 0} = {}
        <5>1. ASSUME NEW u \in Configured PROVE ~(u < 0)
          <6>1. u \in 0..2
            BY <1>3 DEF Tier
          <6> QED BY <6>1
        <5> QED BY <5>1, Zenon
      <4> QED BY <2>2, <4>1 DEF Fastest, ResolveConfiguredTier
    <3>2. t \in slower
      BY <1>3, <2>2 DEF Tier
    <3>3. slower \in SUBSET Tier /\ slower # {}
      BY <1>3, <3>2
    <3>4. \A u \in slower : Min(slower) <= u
      BY <3>3, TierMinMax
    <3> QED BY <3>1, <3>2, <3>4 DEF NextSlowerConfigured
  <2> QED BY <2>1, <2>2
<1> QED BY <1>2, <1>3, <1>4

\* The threshold is a number of bytes, and not above the capacity: what
\* enforcement leaves is within the configured capacity (requirement 2.4).
LEMMA ThresholdType ==
  ASSUME NEW t \in Tier
  PROVE  /\ CapacityOf(t) \in Nat
         /\ EvictionThresholdOf(t) \in Nat
         /\ EvictionThresholdOf(t) <= CapacityOf(t)
<1>1. CapacityOf(t) \in Nat
  BY TierAssumption DEF CapacityOf
<1>2. CapacityOf(t) * RatioNum \in Nat
  BY <1>1, TierAssumption
<1>3. \A a \in Nat, b \in Nat \ {0} : a \div b \in Nat
  OBVIOUS
<1>4. (CapacityOf(t) * RatioNum) \div RatioDen \in Nat
  BY <1>2, <1>3, TierAssumption
<1> QED BY <1>1, <1>4 DEF EvictionThresholdOf

----------------------------------------------------------------------------
(* The books after the record of one key is replaced *)

\* Replacing the record of k changes the bytes of a set by the old and the
\* new size of k: the -= of RemoveLocked and the += of the insertion.
LEMMA BytesAfter ==
  ASSUME NEW B, NEW k \in Key, NEW b,
         NEW C, C[k] = b, \A j \in Key \ {k} : C[j] = B[j],
         NEW S, NEW T, S \ {k} = T \ {k}, S \subseteq Key, T \subseteq Key,
         k \in S => B[k].payload \in Payload,
         k \in T => b.payload \in Payload
  PROVE  Cardinality(ByteSet(C, T)) =
           Cardinality(ByteSet(B, S))
             - (IF k \in S THEN Size[B[k].payload] ELSE 0)
             + (IF k \in T THEN Size[b.payload] ELSE 0)
<1>1. \A j \in S \ {k} : B[j].payload = C[j].payload
  OBVIOUS
<1>2. ByteSet(B, S \ {k}) = ByteSet(C, T \ {k})
  <2>1. ByteSet(B, S \ {k}) = ByteSet(C, S \ {k})
    BY <1>1, ByteSetAgree
  <2> QED BY <2>1
<1>3. Cardinality(ByteSet(B, S)) =
        Cardinality(ByteSet(B, S \ {k}))
          + (IF k \in S THEN Size[B[k].payload] ELSE 0)
  <2>1. CASE k \in S
    BY <2>1, ByteSetSplit
  <2>2. CASE k \notin S
    <3>1. Cardinality(ByteSet(B, S \ {k})) = Cardinality(ByteSet(B, S))
      <4>1. S \ {k} = S
        BY <2>2
      <4> QED BY <4>1
    <3>2. Cardinality(ByteSet(B, S)) \in Nat
      BY ByteSetFinite
    <3> QED BY <2>2, <3>1, <3>2
  <2> QED BY <2>1, <2>2
<1>4. Cardinality(ByteSet(C, T)) =
        Cardinality(ByteSet(C, T \ {k}))
          + (IF k \in T THEN Size[b.payload] ELSE 0)
  <2>1. CASE k \in T
    BY <1>1, <2>1, ByteSetSplit
  <2>2. CASE k \notin T
    <3>1. Cardinality(ByteSet(C, T \ {k})) = Cardinality(ByteSet(C, T))
      <4>1. T \ {k} = T
        BY <2>2
      <4> QED BY <4>1
    <3>2. Cardinality(ByteSet(C, T)) \in Nat
      BY ByteSetFinite
    <3> QED BY <2>2, <3>1, <3>2
  <2> QED BY <2>1, <2>2
<1>5. /\ Cardinality(ByteSet(B, S \ {k})) \in Nat
      /\ k \in S => Size[B[k].payload] \in Nat
      /\ k \in T => Size[b.payload] \in Nat
  <2>1. Cardinality(ByteSet(B, S \ {k})) \in Nat
    BY ByteSetFinite
  <2> QED BY <2>1, SizeType
<1> QED BY <1>2, <1>3, <1>4, <1>5

\* A record in a tier is a stored block, with a payload and a tenant.
LEMMA InTier ==
  ASSUME NEW b \in StoredBlock \cup {NoBlock}
  PROVE  /\ b.tier \in Tier => b \in StoredBlock
         /\ b.tier # NoTier => b \in StoredBlock
         /\ b.tier \in Tier \cup {NoTier}
         /\ NoTier \notin Tier
         /\ b \in StoredBlock => b.tier \in Tier /\ b.payload \in Payload
<1>1. Configured \subseteq Tier /\ NoTier \notin Tier
  BY TierAssumption DEF Tier, NoTier
<1>2. CASE b \in StoredBlock
  BY <1>1, <1>2 DEF StoredBlock
<1>3. CASE b = NoBlock
  <2>1. b.tier = NoTier
    BY <1>3 DEF NoBlock
  <2>2. b \notin StoredBlock
    BY <1>1, <2>1 DEF StoredBlock
  <2> QED BY <1>1, <2>1, <2>2
<1> QED BY <1>2, <1>3

\* The byte counters agree with the blocks after RemoveLocked and insertion.
LEMMA ResettleBytes ==
  ASSUME StoreType, ByteAccounting, NEW k \in Key,
         NEW b \in StoredBlock \cup {NoBlock}, Resettle(k, b)
  PROVE  ByteAccounting'
<1>1. /\ blocks'[k] = b
      /\ \A j \in Key \ {k} : blocks'[j] = blocks[j]
      /\ blocks[k] \in StoredBlock \cup {NoBlock}
  BY DEF StoreType, Resettle
<1>2. ASSUME NEW t \in Tier
      PROVE  used'[t] = Bytes({j \in Key : blocks[j].tier = t})'
  <2> DEFINE S == {j \in Key : blocks[j].tier = t}
             T == {j \in Key : blocks'[j].tier = t}
  <2>1. S \ {k} = T \ {k}
    BY <1>1
  <2>2. /\ k \in S <=> blocks[k].tier = t
        /\ k \in T <=> b.tier = t
    BY <1>1
  <2>3. /\ k \in S => blocks[k].payload \in Payload
        /\ k \in T => b.payload \in Payload
    BY <1>1, <2>2, InTier
  <2>4. Cardinality(ByteSet(blocks', T)) =
          Cardinality(ByteSet(blocks, S))
            - (IF k \in S THEN Size[blocks[k].payload] ELSE 0)
            + (IF k \in T THEN Size[b.payload] ELSE 0)
    <3> S \subseteq Key /\ T \subseteq Key
      OBVIOUS
    <3> HIDE DEF S, T
    <3> QED BY <1>1, <2>1, <2>3, BytesAfter
  <2>5. used[t] = Cardinality(ByteSet(blocks, S))
    BY DEF ByteAccounting, Bytes
  <2>6. used'[t] = used[t] - Charge(blocks[k], t) + Charge(b, t)
    BY DEF Resettle, UsedAfter
  <2>7. used'[t] = Cardinality(ByteSet(blocks', T))
    BY <2>2, <2>4, <2>5, <2>6 DEF Charge
  <2> QED BY <2>7 DEF Bytes
<1>3. smallUsed' = Bytes({j \in Key : InSmall(j)})'
  <2> DEFINE Small(x) == x.tier # NoTier /\ x.tier = Fastest /\ ~x.inMain
             S == {j \in Key : Small(blocks[j])}
             T == {j \in Key : Small(blocks'[j])}
  <2>1. S \ {k} = T \ {k}
    BY <1>1
  <2>2. /\ k \in S <=> Small(blocks[k])
        /\ k \in T <=> Small(b)
    BY <1>1
  <2>3. /\ k \in S => blocks[k].payload \in Payload
        /\ k \in T => b.payload \in Payload
    BY <1>1, <2>2, InTier
  <2>4. Cardinality(ByteSet(blocks', T)) =
          Cardinality(ByteSet(blocks, S))
            - (IF k \in S THEN Size[blocks[k].payload] ELSE 0)
            + (IF k \in T THEN Size[b.payload] ELSE 0)
    <3> S \subseteq Key /\ T \subseteq Key
      OBVIOUS
    <3> HIDE DEF S, T
    <3> QED BY <1>1, <2>1, <2>3, BytesAfter
  <2>5. smallUsed = Cardinality(ByteSet(blocks, S))
    <3>1. S = {j \in Key : InSmall(j)}
      BY DEF InSmall, Resident
    <3> QED BY <3>1 DEF ByteAccounting, Bytes
  <2>6. smallUsed' = smallUsed - SmallCharge(blocks[k]) + SmallCharge(b)
    BY DEF Resettle, SmallUsedAfter
  <2>7. smallUsed' = Cardinality(ByteSet(blocks', T))
    BY <2>2, <2>4, <2>5, <2>6 DEF SmallCharge, Charge
  <2>8. T = {j \in Key : InSmall(j)'}
    BY DEF InSmall, Resident
  <2> QED BY <2>7, <2>8 DEF Bytes
<1>4. ASSUME QuotaEnabled, NEW t \in Tier, NEW n \in Tenant
      PROVE  tenantUsed'[t][n] =
               Bytes({j \in Key : blocks[j].tier = t /\ blocks[j].tenant = n})'
  <2> DEFINE S == {j \in Key : blocks[j].tier = t /\ blocks[j].tenant = n}
             T == {j \in Key : blocks'[j].tier = t /\ blocks'[j].tenant = n}
             old == IF k \in S THEN Size[blocks[k].payload] ELSE 0
             new == IF k \in T THEN Size[b.payload] ELSE 0
  <2>1. S \ {k} = T \ {k}
    BY <1>1
  <2>2. /\ k \in S <=> blocks[k].tier = t /\ blocks[k].tenant = n
        /\ k \in T <=> b.tier = t /\ b.tenant = n
    BY <1>1
  <2>3. /\ k \in S => blocks[k].payload \in Payload
        /\ k \in T => b.payload \in Payload
    BY <1>1, <2>2, InTier
  <2>4. Cardinality(ByteSet(blocks', T)) =
          Cardinality(ByteSet(blocks, S)) - old + new
    <3> S \subseteq Key /\ T \subseteq Key
      OBVIOUS
    <3> HIDE DEF S, T
    <3> QED BY <1>1, <2>1, <2>3, BytesAfter
  <2>5. tenantUsed[t][n] = Cardinality(ByteSet(blocks, S))
    BY <1>4 DEF ByteAccounting, Bytes
  <2>6. old \in Nat /\ new \in Nat /\ old <= Cardinality(ByteSet(blocks, S))
    <3>1. old \in Nat /\ new \in Nat
      BY <2>3, SizeType
    <3>2. CASE k \in S
      <4>1. Cardinality(ByteSet(blocks, S)) =
              Cardinality(ByteSet(blocks, S \ {k})) + Size[blocks[k].payload]
        <5> HIDE DEF S
        <5> QED BY <2>3, <3>2, ByteSetSplit
      <4>2. Cardinality(ByteSet(blocks, S \ {k})) \in Nat
        BY ByteSetFinite
      <4> QED BY <3>1, <3>2, <4>1, <4>2
    <3>3. CASE k \notin S
      <4>1. Cardinality(ByteSet(blocks, S)) \in Nat
        BY ByteSetFinite
      <4> QED BY <3>1, <3>3, <4>1
    <3> QED BY <3>1, <3>2, <3>3
  <2>7. tenantUsed'[t][n] =
          (IF old > tenantUsed[t][n] THEN 0 ELSE tenantUsed[t][n] - old) + new
    <3>1. /\ old = IF blocks[k].tenant = n THEN Charge(blocks[k], t) ELSE 0
          /\ new = IF b.tenant = n THEN Charge(b, t) ELSE 0
      BY <2>2 DEF Charge
    <3>2. tenantUsed' = AccountUsedAfter(k, b)
      BY <1>4 DEF Resettle
    <3> HIDE DEF old, new
    <3> QED BY <3>1, <3>2 DEF AccountUsedAfter
  <2>8. tenantUsed'[t][n] = Cardinality(ByteSet(blocks', T))
    <3>1. Cardinality(ByteSet(blocks, S)) \in Nat
      BY ByteSetFinite
    <3> HIDE DEF S, T, old, new
    <3> QED BY <2>4, <2>5, <2>6, <2>7, <3>1
  <2> QED BY <2>8 DEF Bytes
<1> QED BY <1>2, <1>3, <1>4 DEF ByteAccounting

\* The victim indexes follow: the old order is erased, the new one inserted.
LEMMA ResettleIndex ==
  ASSUME StoreType, IndexSync, NEW k \in Key,
         NEW b \in StoredBlock \cup {NoBlock}, Resettle(k, b)
  PROVE  IndexSync'
<1>1. /\ blocks'[k] = b
      /\ \A j \in Key \ {k} : blocks'[j] = blocks[j]
  BY DEF StoreType, Resettle
\* One index, of the keys S before and T after the change.
<1>2. ASSUME NEW S \in SUBSET Key, NEW T \in SUBSET Key, S \ {k} = T \ {k},
             NEW old, NEW new, Indexes(old, S),
             new = (IF k \in S THEN old \ {<<blocks[k].ts, k>>} ELSE old)
                     \cup (IF k \in T THEN {<<b.ts, k>>} ELSE {})
      PROVE  /\ \A e \in new : e[2] \in T /\ e = <<blocks'[e[2]].ts, e[2]>>
             /\ \A j \in T : <<blocks'[j].ts, j>> \in new
  <2>1. ASSUME NEW e \in new
        PROVE  e[2] \in T /\ e = <<blocks'[e[2]].ts, e[2]>>
    <3>1. CASE k \in T /\ e = <<b.ts, k>>
      BY <1>1, <3>1
    <3>2. CASE ~(k \in T /\ e = <<b.ts, k>>)
      <4>1. e \in old /\ (k \in S => e # <<blocks[k].ts, k>>)
        BY <1>2, <3>2
      <4>2. e[2] \in S /\ e = <<blocks[e[2]].ts, e[2]>>
        BY <1>2, <4>1 DEF Indexes
      <4>3. e[2] # k
        BY <4>1, <4>2
      <4> QED BY <1>1, <1>2, <4>2, <4>3
    <3> QED BY <3>1, <3>2
  <2>2. ASSUME NEW j \in T
        PROVE  <<blocks'[j].ts, j>> \in new
    <3>1. CASE j = k
      BY <1>1, <1>2, <3>1
    <3>2. CASE j # k
      <4>1. j \in S /\ blocks'[j] = blocks[j]
        BY <1>1, <1>2, <3>2
      <4>2. <<blocks[j].ts, j>> \in old
        BY <1>2, <4>1 DEF Indexes
      <4>3. <<blocks[j].ts, j>> # <<blocks[k].ts, k>>
        BY <3>2
      <4> QED BY <1>2, <4>1, <4>2, <4>3
    <3> QED BY <3>1, <3>2
  <2> QED BY <2>1, <2>2
<1>3. ASSUME NEW t \in Tier
      PROVE  Indexes(victimIndex[t],
                     {j \in Key : t # Fastest /\ blocks[j].tier = t})'
  <2> DEFINE S == {j \in Key : t # Fastest /\ blocks[j].tier = t}
             T == {j \in Key : t # Fastest /\ blocks'[j].tier = t}
  <2>1. S \in SUBSET Key /\ T \in SUBSET Key /\ S \ {k} = T \ {k}
    BY <1>1
  <2>2. Indexes(victimIndex[t], S)
    BY DEF IndexSync
  <2>3. victimIndex'[t] =
          (IF k \in S THEN victimIndex[t] \ {<<blocks[k].ts, k>>}
                      ELSE victimIndex[t])
            \cup (IF k \in T THEN {<<b.ts, k>>} ELSE {})
    BY <1>1 DEF Resettle, IndexAfter
  <2> HIDE DEF S, T
  <2>4. /\ \A e \in victimIndex'[t] :
             e[2] \in T /\ e = <<blocks'[e[2]].ts, e[2]>>
        /\ \A j \in T : <<blocks'[j].ts, j>> \in victimIndex'[t]
    BY <1>2, <2>1, <2>2, <2>3
  <2> QED BY <2>4 DEF Indexes, T
<1>4. ASSUME QuotaEnabled, NEW t \in Tier, NEW n \in Tenant
      PROVE  Indexes(tenantIndex[t][n],
                     {j \in Key : blocks[j].tier = t /\ blocks[j].tenant = n})'
  <2> DEFINE S == {j \in Key : blocks[j].tier = t /\ blocks[j].tenant = n}
             T == {j \in Key : blocks'[j].tier = t /\ blocks'[j].tenant = n}
  <2>1. S \in SUBSET Key /\ T \in SUBSET Key /\ S \ {k} = T \ {k}
    BY <1>1
  <2>2. Indexes(tenantIndex[t][n], S)
    BY <1>4 DEF IndexSync
  <2>3. tenantIndex'[t][n] =
          (IF k \in S THEN tenantIndex[t][n] \ {<<blocks[k].ts, k>>}
                      ELSE tenantIndex[t][n])
            \cup (IF k \in T THEN {<<b.ts, k>>} ELSE {})
    BY <1>1, <1>4 DEF Resettle, AccountIndexAfter
  <2> HIDE DEF S, T
  <2>4. /\ \A e \in tenantIndex'[t][n] :
             e[2] \in T /\ e = <<blocks'[e[2]].ts, e[2]>>
        /\ \A j \in T : <<blocks'[j].ts, j>> \in tenantIndex'[t][n]
    BY <1>2, <2>1, <2>2, <2>3
  <2> QED BY <2>4 DEF Indexes, T
<1> QED BY <1>3, <1>4 DEF IndexSync

\* The counters stay natural numbers: no size_t wraps below zero.
LEMMA ResettleType ==
  ASSUME StoreType, ByteAccounting, NEW k \in Key,
         NEW b \in StoredBlock \cup {NoBlock}, Resettle(k, b)
  PROVE  StoreType'
<1>1. ByteAccounting'
  BY ResettleBytes
<1>2. blocks' \in [Key -> StoredBlock \cup {NoBlock}]
  BY DEF StoreType, Resettle
<1>3. used' \in [Tier -> Nat]
  <2>1. \A t \in Tier : used'[t] \in Nat
    <3>1. \A S : Bytes(S)' \in Nat
      BY ByteSetFinite DEF Bytes
    <3> QED BY <1>1, <3>1 DEF ByteAccounting
  <2> QED BY <2>1 DEF Resettle, UsedAfter
<1>4. smallUsed' \in Nat
  BY <1>1, ByteSetFinite DEF ByteAccounting, Bytes
<1>5. b.ts \in Nat
  BY DEF StoredBlock, NoBlock
<1>6. victimIndex' \in [Tier -> SUBSET (Nat \X Key)]
  BY <1>5 DEF Resettle, IndexAfter, StoreType
<1>7. tenantUsed' \in [Tier -> [Tenant -> Nat]]
  <2>1. CASE QuotaEnabled
    <3>1. \A t \in Tier, n \in Tenant : tenantUsed'[t][n] \in Nat
      <4>1. \A S : Bytes(S)' \in Nat
        BY ByteSetFinite DEF Bytes
      <4> QED BY <1>1, <2>1, <4>1 DEF ByteAccounting
    <3> QED BY <2>1, <3>1 DEF Resettle, AccountUsedAfter
  <2>2. CASE ~QuotaEnabled
    BY <2>2 DEF Resettle, StoreType
  <2> QED BY <2>1, <2>2
<1>8. tenantIndex' \in [Tier -> [Tenant -> SUBSET (Nat \X Key)]]
  BY <1>5 DEF Resettle, AccountIndexAfter, StoreType
<1> QED BY <1>2, <1>3, <1>4, <1>6, <1>7, <1>8 DEF StoreType

----------------------------------------------------------------------------
(* Queues *)

\* push_back adds its key to the queue and nothing else.
LEMMA ElementsAppend ==
  ASSUME NEW s \in Seq(Key), NEW k \in Key
  PROVE  /\ Append(s, k) \in Seq(Key)
         /\ Elements(Append(s, k)) = Elements(s) \cup {k}
<1>1. /\ Append(s, k) \in Seq(Key)
      /\ Len(Append(s, k)) = Len(s) + 1
      /\ \A i \in 1..Len(s) : Append(s, k)[i] = s[i]
      /\ Append(s, k)[Len(s) + 1] = k
  OBVIOUS
<1>2. DOMAIN s = 1..Len(s) /\ DOMAIN Append(s, k) = 1..(Len(s) + 1) /\ Len(s) \in Nat
  BY <1>1
<1>3. ASSUME NEW x \in Elements(Append(s, k)) PROVE x \in Elements(s) \cup {k}
  <2>1. PICK i \in 1..(Len(s) + 1) : x = Append(s, k)[i]
    BY <1>2, <1>3 DEF Elements
  <2>2. CASE i = Len(s) + 1
    BY <1>1, <2>1, <2>2
  <2>3. CASE i \in 1..Len(s)
    BY <1>1, <1>2, <2>1, <2>3 DEF Elements
  <2> QED BY <1>2, <2>2, <2>3
<1>4. ASSUME NEW x \in Elements(s) \cup {k} PROVE x \in Elements(Append(s, k))
  <2>1. CASE x = k
    BY <1>1, <1>2, <2>1 DEF Elements
  <2>2. CASE x \in Elements(s)
    <3>1. PICK i \in 1..Len(s) : x = s[i]
      BY <1>2, <2>2 DEF Elements
    <3>2. i \in 1..(Len(s) + 1) /\ Append(s, k)[i] = x
      BY <1>1, <1>2, <3>1
    <3> QED BY <1>2, <3>2 DEF Elements
  <2> QED BY <1>4, <2>1, <2>2
<1> QED BY <1>1, <1>3, <1>4

\* pop_front removes at most the front key from the queue.
LEMMA ElementsTail ==
  ASSUME NEW s \in Seq(Key), s # <<>>
  PROVE  /\ Head(s) \in Key
         /\ Tail(s) \in Seq(Key)
         /\ Elements(s) \subseteq Elements(Tail(s)) \cup {Head(s)}
<1>1. /\ Head(s) \in Key /\ Tail(s) \in Seq(Key)
      /\ Len(s) \in Nat /\ Len(s) > 0 /\ Len(Tail(s)) = Len(s) - 1
      /\ Head(s) = s[1]
      /\ \A i \in 1..Len(Tail(s)) : Tail(s)[i] = s[i + 1]
  OBVIOUS
<1>2. DOMAIN s = 1..Len(s) /\ DOMAIN Tail(s) = 1..(Len(s) - 1)
  BY <1>1
<1>3. ASSUME NEW x \in Elements(s)
      PROVE  x \in Elements(Tail(s)) \cup {Head(s)}
  <2>1. PICK i \in 1..Len(s) : x = s[i]
    BY <1>2 DEF Elements
  <2>2. CASE i = 1
    BY <1>1, <2>1, <2>2
  <2>3. CASE i # 1
    <3>1. i - 1 \in 1..(Len(s) - 1) /\ Tail(s)[i - 1] = x
      BY <1>1, <2>1, <2>3
    <3> QED BY <1>2, <3>1 DEF Elements
  <2> QED BY <2>2, <2>3
<1> QED BY <1>1, <1>3

----------------------------------------------------------------------------
(* The inductive invariant *)

\* CapacityBound alone is not inductive: LeaveEnforce keeps it only if
\* enforcement always finds a victim, which rests on the byte counters
\* (over the threshold, so not empty), on the indexes and on the queues.
Inv ==
  /\ TypeOK
  /\ ByteAccounting
  /\ IndexSync
  /\ QueueCoverage
  /\ CapacityBound
  /\ VictimFound

\* The part of the invariant that speaks of the block map and its books.
StoreInv == StoreType /\ ByteAccounting /\ IndexSync

\* What replacing the record of k does to the rest of the state.
LEMMA ResettleInv ==
  ASSUME StoreInv, NEW k \in Key,
         NEW b \in StoredBlock \cup {NoBlock}, Resettle(k, b)
  PROVE  /\ StoreInv'
         /\ blocks'[k] = b
         /\ \A j \in Key \ {k} : blocks'[j] = blocks[j]
         /\ \A t \in Tier :
              \/ b.tier # t
              \/ blocks[k].tier = t /\ blocks[k].payload = b.payload
              => used'[t] <= used[t]
<1>1. StoreInv'
  BY ResettleBytes, ResettleIndex, ResettleType DEF StoreInv
<1>2. /\ blocks'[k] = b
      /\ \A j \in Key \ {k} : blocks'[j] = blocks[j]
      /\ blocks[k] \in StoredBlock \cup {NoBlock}
  BY DEF StoreInv, StoreType, Resettle
<1>3. ASSUME NEW t \in Tier,
             \/ b.tier # t
             \/ blocks[k].tier = t /\ blocks[k].payload = b.payload
      PROVE  used'[t] <= used[t]
  <2>1. used'[t] = used[t] - Charge(blocks[k], t) + Charge(b, t)
    BY DEF Resettle, UsedAfter
  <2>2. used[t] \in Nat
    BY DEF StoreInv, StoreType
  <2>3. Charge(blocks[k], t) \in Nat
    BY <1>2, InTier, SizeType DEF Charge
  <2>4. Charge(b, t) <= Charge(blocks[k], t) /\ Charge(b, t) \in Nat
    BY <1>2, <1>3, <2>3, InTier, SizeType DEF Charge
  <2> QED BY <2>1, <2>2, <2>3, <2>4
<1> QED BY <1>1, <1>2, <1>3

\* Only the queue membership of k can change with its record.
LEMMA MembershipKept ==
  ASSUME NEW k \in Key, \A j \in Key \ {k} : blocks'[j] = blocks[j]
  PROVE  \A j \in Key \ {k} : InSmall(j)' = InSmall(j) /\ InMain(j)' = InMain(j)
BY DEF InSmall, InMain, Resident

\* PlaceLocked, called with the lock held and nothing being enforced.
LEMMA PlaceInv ==
  ASSUME Inv, frames = {},
         NEW k \in Key, NEW p \in Payload, NEW t \in Configured,
         NEW n \in Tenant, PlaceLocked(k, p, t, n), frames' = {t}
  PROVE  StoreInv' /\ QueueType' /\ QueueCoverage' /\ CapacityBound'
<1> DEFINE warm == k \in ghost
           seen == blocks[k].count + 1
           count == IF seen = 1 /\ warm THEN 2 ELSE seen
           main == t = Fastest /\ (warm \/ count > 1)
           b == [payload |-> p, tier |-> t, tenant |-> n, count |-> count,
                 ts |-> clock + 1, freq |-> 0, inMain |-> main]
<1>1. /\ Resettle(k, b)
      /\ clock' = clock + 1
      /\ ghost' = ghost \ {k}
      /\ mainFifo' = IF main THEN Append(mainFifo, k) ELSE mainFifo
      /\ smallFifo' = IF t = Fastest /\ ~main THEN Append(smallFifo, k)
                                              ELSE smallFifo
      /\ UNCHANGED ghostFifo
  BY DEF PlaceLocked
<1>2. StoreInv /\ QueueType /\ QueueCoverage /\ CapacityBound
  BY DEF Inv, TypeOK, StoreInv
<1>3. blocks[k].count \in Nat
  BY <1>2 DEF StoreInv, StoreType, StoredBlock, NoBlock
<1>4. b \in StoredBlock
  BY <1>2, <1>3 DEF StoredBlock, QueueType
<1>5. b.tier = t /\ (b.inMain <=> main)
  OBVIOUS
<1> HIDE DEF b, main
<1>6. /\ StoreInv'
      /\ blocks'[k] = b
      /\ \A j \in Key \ {k} : blocks'[j] = blocks[j]
      /\ \A u \in Tier : b.tier # u => used'[u] <= used[u]
  BY <1>1, <1>2, <1>4, ResettleInv
<1>7. QueueType'
  BY <1>1, <1>2, ElementsAppend DEF QueueType
<1>8. QueueCoverage'
  <2>1. /\ Elements(smallFifo) \subseteq Elements(smallFifo')
        /\ Elements(mainFifo) \subseteq Elements(mainFifo')
        /\ main => k \in Elements(mainFifo')
        /\ t = Fastest /\ ~main => k \in Elements(smallFifo')
    BY <1>1, <1>2, ElementsAppend DEF QueueType
  <2>2. ASSUME NEW j \in Key
        PROVE  /\ InSmall(j)' => j \in Elements(smallFifo')
               /\ InMain(j)' => j \in Elements(mainFifo')
    <3>1. CASE j = k
      BY <1>5, <1>6, <2>1, <3>1 DEF InSmall, InMain
    <3>2. CASE j # k
      BY <1>2, <1>6, <2>1, <3>2, MembershipKept DEF QueueCoverage
    <3> QED BY <3>1, <3>2
  <2>3. Elements(smallFifo)' = Elements(smallFifo') /\ Elements(mainFifo)' = Elements(mainFifo')
    BY DEF Elements
  <2> QED BY <2>2, <2>3 DEF QueueCoverage
<1>9. CapacityBound'
  <2>1. ASSUME NEW u \in Tier \ frames'
        PROVE  used'[u] <= EvictionThresholdOf(u)
    <3>1. u # t /\ used[u] <= EvictionThresholdOf(u)
      BY <1>2 DEF CapacityBound
    <3>2. used'[u] <= used[u] /\ used[u] \in Nat /\ used'[u] \in Nat
      BY <1>2, <1>5, <1>6, <3>1 DEF StoreInv, StoreType
    <3> QED BY <3>1, <3>2, ThresholdType
  <2> QED BY <2>1 DEF CapacityBound
<1> QED BY <1>6, <1>7, <1>8, <1>9

\* A hit that is served where the block is: ReadFast and ReadSlowInPlace.
LEMMA TouchInv ==
  ASSUME Inv, op = "idle", NEW k \in Resident, NEW b \in StoredBlock,
         b.tier = blocks[k].tier, b.payload = blocks[k].payload,
         b.inMain = blocks[k].inMain,
         Resettle(k, b), clock' = clock + 1,
         Return("Ok", blocks[k].payload), UNCHANGED queues
  PROVE  Inv'
<1>1. StoreInv /\ QueueType /\ QueueCoverage /\ CapacityBound /\ ControlType
  BY DEF Inv, TypeOK, StoreInv
<1>2. k \in Key /\ blocks[k].payload \in Payload
  BY <1>1, InTier DEF Resident, StoreInv, StoreType
<1>3. /\ StoreInv'
      /\ blocks'[k] = b
      /\ \A j \in Key \ {k} : blocks'[j] = blocks[j]
      /\ \A t \in Tier : used'[t] <= used[t]
  BY <1>1, <1>2, ResettleInv
<1>4. QueueType'
  BY <1>1 DEF QueueType, queues
<1>5. ControlType' /\ VictimFound'
  BY <1>2 DEF Return, ControlType, Status, VictimFound
<1>6. QueueCoverage'
  <2>1. \A j \in Key : InSmall(j)' = InSmall(j) /\ InMain(j)' = InMain(j)
    BY <1>2, <1>3 DEF InSmall, InMain, Resident
  <2>2. Elements(smallFifo)' = Elements(smallFifo) /\ Elements(mainFifo)' = Elements(mainFifo)
    BY DEF Elements, queues
  <2> QED BY <1>1, <2>1, <2>2 DEF QueueCoverage
<1>7. CapacityBound'
  <2>1. frames = {} /\ frames' = {}
    BY <1>1 DEF ControlType, Return
  <2>2. \A t \in Tier : used[t] \in Nat /\ used'[t] \in Nat
    BY <1>1, <1>3 DEF StoreInv, StoreType
  <2> QED BY <1>1, <1>3, <2>1, <2>2, ThresholdType DEF CapacityBound
<1> QED BY <1>3, <1>4, <1>5, <1>6, <1>7 DEF Inv, TypeOK, StoreInv

\* A write that is accepted.
LEMMA WriteInv ==
  ASSUME Inv, NEW k \in Key, NEW p \in Payload, NEW target \in Tier,
         NEW n \in Tenant, Write(k, p, target, n)
  PROVE  Inv'
<1> DEFINE t == ResolveConfiguredTier(target)
<1>1. t \in Configured /\ t \in Tier
  BY ResolveType, FastestType DEF Write
<1>2. frames = {} /\ ControlType
  BY DEF Inv, TypeOK, ControlType, Write
<1>3. PlaceLocked(k, p, t, n) /\ Call("Write", <<>>, {t})
  BY DEF Write
<1> HIDE DEF t
<1>4. StoreInv' /\ QueueType' /\ QueueCoverage' /\ CapacityBound'
  BY <1>1, <1>2, <1>3, PlaceInv DEF Call
<1>5. ControlType' /\ VictimFound'
  BY <1>1, <1>2, <1>3 DEF Call, ControlType, VictimFound, Inv
<1> QED BY <1>4, <1>5 DEF Inv, TypeOK, StoreInv

\* A touched block is a stored block, at the same place with the same content.
LEMMA TouchedType ==
  ASSUME NEW x \in StoredBlock, clock \in Nat
  PROVE  /\ Touched(x) \in StoredBlock
         /\ Touched(x).tier = x.tier /\ Touched(x).payload = x.payload
         /\ Touched(x).inMain = x.inMain /\ Touched(x).tenant = x.tenant
         /\ Touched(x).freq = x.freq /\ Touched(x).ts = clock + 1
<1> DEFINE y == [x EXCEPT !.count = @ + 1]
<1>1. /\ y \in StoredBlock /\ y.tier = x.tier /\ y.payload = x.payload
      /\ y.inMain = x.inMain /\ y.tenant = x.tenant /\ y.freq = x.freq
  BY DEF StoredBlock
<1>2. Touched(x) = [y EXCEPT !.ts = clock + 1]
  BY DEF Touched
<1> HIDE DEF y
<1> QED BY <1>1, <1>2 DEF StoredBlock

\* The two hits that move no block.
LEMMA ReadInv ==
  ASSUME Inv, NEW k \in Key, ReadFast(k) \/ ReadSlowInPlace(k)
  PROVE  Inv'
<1>1. StoreType /\ clock \in Nat
  BY DEF Inv, TypeOK, QueueType
<1>2. k \in Resident /\ op = "idle"
  BY DEF ReadFast, ReadSlowInPlace
<1>3. blocks[k] \in StoredBlock
  BY <1>1, <1>2, InTier DEF StoreType, Resident
<1>4. CASE ReadFast(k)
  <2> DEFINE b == [Touched(blocks[k]) EXCEPT !.freq = IF @ < 3 THEN @ + 1 ELSE 3]
  <2>1. /\ b \in StoredBlock
        /\ b.tier = blocks[k].tier /\ b.payload = blocks[k].payload
        /\ b.inMain = blocks[k].inMain
    <3>1. Touched(blocks[k]) \in StoredBlock
      BY <1>1, <1>3, TouchedType
    <3>2. ASSUME NEW y \in StoredBlock
          PROVE  LET z == [y EXCEPT !.freq = IF @ < 3 THEN @ + 1 ELSE 3]
                 IN  /\ z \in StoredBlock
                     /\ z.tier = y.tier /\ z.payload = y.payload
                     /\ z.inMain = y.inMain
      BY DEF StoredBlock
    <3> QED BY <1>1, <1>3, <3>1, <3>2, TouchedType
  <2>2. /\ Resettle(k, b) /\ clock' = clock + 1
        /\ Return("Ok", blocks[k].payload) /\ UNCHANGED queues
    BY <1>4 DEF ReadFast
  <2> HIDE DEF b
  <2> QED BY <1>2, <2>1, <2>2, TouchInv
<1>5. CASE ReadSlowInPlace(k)
  <2> DEFINE b == Touched(blocks[k])
  <2>1. /\ b \in StoredBlock
        /\ b.tier = blocks[k].tier /\ b.payload = blocks[k].payload
        /\ b.inMain = blocks[k].inMain
    BY <1>1, <1>3, TouchedType
  <2>2. /\ Resettle(k, b) /\ clock' = clock + 1
        /\ Return("Ok", blocks[k].payload) /\ UNCHANGED queues
    BY <1>5 DEF ReadSlowInPlace
  <2> HIDE DEF b
  <2> QED BY <1>2, <2>1, <2>2, TouchInv
<1> QED BY <1>4, <1>5

\* Moving a stored block to tier t, with a place in the S3-FIFO queues.
LEMMA MovedType ==
  ASSUME NEW x \in StoredBlock, NEW t \in Configured, NEW m \in BOOLEAN
  PROVE  LET z == [x EXCEPT !.tier = t, !.freq = 0, !.inMain = m]
         IN  /\ z \in StoredBlock
             /\ z.tier = t /\ z.inMain = m /\ z.payload = x.payload
             /\ z.tenant = x.tenant /\ z.ts = x.ts
<1> DEFINE y == [x EXCEPT !.tier = t]
           w == [y EXCEPT !.freq = 0]
<1>1. /\ y \in StoredBlock /\ y.tier = t /\ y.payload = x.payload
      /\ y.tenant = x.tenant /\ y.ts = x.ts
  BY DEF StoredBlock
<1> HIDE DEF y
<1>2. /\ w \in StoredBlock /\ w.tier = t /\ w.payload = x.payload
      /\ w.tenant = x.tenant /\ w.ts = x.ts
  BY <1>1 DEF StoredBlock
<1>3. [x EXCEPT !.tier = t, !.freq = 0, !.inMain = m] = [w EXCEPT !.inMain = m]
  BY DEF y
<1> HIDE DEF w
<1> QED BY <1>2, <1>3 DEF StoredBlock

\* A slow hit that promotes its block to the fastest tier.
LEMMA PromoteInv ==
  ASSUME Inv, NEW k \in Key, ReadPromote(k)
  PROVE  Inv'
<1> DEFINE b == [Touched(blocks[k]) EXCEPT !.tier = Fastest, !.freq = 0,
                                           !.inMain = TRUE]
<1>1. StoreInv /\ QueueType /\ QueueCoverage /\ CapacityBound /\ ControlType
  BY DEF Inv, TypeOK, StoreInv
<1>2. /\ op = "idle" /\ k \in Resident
      /\ Resettle(k, b) /\ clock' = clock + 1
      /\ mainFifo' = Append(mainFifo, k)
      /\ Call("Read", <<k>>, {Fastest})
      /\ UNCHANGED <<smallFifo, ghost, ghostFifo>>
  BY DEF ReadPromote
<1>3. blocks[k] \in StoredBlock
  BY <1>1, <1>2, InTier DEF StoreInv, StoreType, Resident
<1>4. Fastest \in Configured /\ Fastest \in Tier
  <2>1. blocks[k].tier \in Configured
    BY <1>3 DEF StoredBlock
  <2>2. Fastest <= blocks[k].tier /\ blocks[k].tier \in Tier
    BY <2>1, FastestType
  <2>3. Fastest # NoTier
    BY <2>2 DEF NoTier, Tier
  <2> QED BY <2>3, FastestType
<1>5. b \in StoredBlock /\ b.tier = Fastest /\ b.inMain
  <2>1. Touched(blocks[k]) \in StoredBlock
    BY <1>1, <1>3, TouchedType DEF QueueType
  <2> QED BY <1>4, <2>1, MovedType
<1> HIDE DEF b
<1>6. /\ StoreInv'
      /\ blocks'[k] = b
      /\ \A j \in Key \ {k} : blocks'[j] = blocks[j]
      /\ \A u \in Tier : b.tier # u => used'[u] <= used[u]
  BY <1>1, <1>2, <1>5, ResettleInv
<1>7. QueueType'
  BY <1>1, <1>2, ElementsAppend DEF QueueType
<1>8. QueueCoverage'
  <2>1. /\ Elements(smallFifo') = Elements(smallFifo)
        /\ Elements(mainFifo') = Elements(mainFifo) \cup {k}
    BY <1>1, <1>2, ElementsAppend DEF QueueType
  <2>2. ASSUME NEW j \in Key
        PROVE  /\ InSmall(j)' => j \in Elements(smallFifo')
               /\ InMain(j)' => j \in Elements(mainFifo')
    <3>1. CASE j = k
      BY <1>5, <1>6, <2>1, <3>1 DEF InSmall, InMain
    <3>2. CASE j # k
      BY <1>1, <1>6, <2>1, <3>2, MembershipKept DEF QueueCoverage
    <3> QED BY <3>1, <3>2
  <2>3. /\ Elements(smallFifo)' = Elements(smallFifo')
        /\ Elements(mainFifo)' = Elements(mainFifo')
    BY DEF Elements
  <2> QED BY <2>2, <2>3 DEF QueueCoverage
<1>9. CapacityBound'
  <2>1. frames = {} /\ frames' = {Fastest}
    BY <1>1, <1>2 DEF ControlType, Call
  <2>2. ASSUME NEW u \in Tier \ frames'
        PROVE  used'[u] <= EvictionThresholdOf(u)
    <3>1. u # Fastest /\ used[u] <= EvictionThresholdOf(u)
      BY <1>1, <2>1 DEF CapacityBound
    <3>2. used'[u] <= used[u] /\ used[u] \in Nat /\ used'[u] \in Nat
      BY <1>1, <1>5, <1>6, <3>1 DEF StoreInv, StoreType
    <3> QED BY <3>1, <3>2, ThresholdType
  <2> QED BY <2>2 DEF CapacityBound
<1>10. ControlType' /\ VictimFound'
  BY <1>1, <1>2, <1>4 DEF Call, ControlType, VictimFound, Inv
<1> QED BY <1>6, <1>7, <1>8, <1>9, <1>10 DEF Inv, TypeOK, StoreInv

\* The demoted record of Evict.
LEMMA DemotedType ==
  ASSUME NEW x \in StoredBlock, NEW t \in Configured, clock \in Nat
  PROVE  LET z == [x EXCEPT !.tier = t, !.ts = clock + 1, !.freq = 0,
                            !.inMain = FALSE]
         IN  /\ z \in StoredBlock
             /\ z.tier = t /\ z.payload = x.payload
             /\ z.tenant = x.tenant /\ z.ts = clock + 1
<1> DEFINE y == [x EXCEPT !.tier = t]
           w == [y EXCEPT !.ts = clock + 1]
           v == [w EXCEPT !.freq = 0]
<1>1. /\ y \in StoredBlock /\ y.tier = t /\ y.payload = x.payload
      /\ y.tenant = x.tenant
  BY DEF StoredBlock
<1> HIDE DEF y
<1>2. /\ w \in StoredBlock /\ w.tier = t /\ w.payload = x.payload
      /\ w.tenant = x.tenant /\ w.ts = clock + 1
  BY <1>1 DEF StoredBlock
<1> HIDE DEF w
<1>3. /\ v \in StoredBlock /\ v.tier = t /\ v.payload = x.payload
      /\ v.tenant = x.tenant /\ v.ts = clock + 1
  BY <1>2 DEF StoredBlock
<1>4. [x EXCEPT !.tier = t, !.ts = clock + 1, !.freq = 0, !.inMain = FALSE]
        = [v EXCEPT !.inMain = FALSE]
  BY DEF y, w
<1> HIDE DEF v
<1> QED BY <1>3, <1>4 DEF StoredBlock

\* One turn of the eviction loop, for a victim v of tier t.
LEMMA EvictInv ==
  ASSUME Inv, NEW t \in frames, NEW v \in Key, blocks[v].tier = t, Evict(v, t)
  PROVE  /\ StoreInv' /\ ControlType' /\ CapacityBound' /\ VictimFound'
         /\ clock' \in Nat
         /\ \A j \in Key \ {v} : blocks'[j] = blocks[j]
         /\ ~InSmall(v)' /\ ~InMain(v)'
<1> DEFINE slower == NextSlowerConfigured(t)
           demoted == [blocks[v] EXCEPT !.tier = slower, !.ts = clock + 1,
                                        !.freq = 0, !.inMain = FALSE]
           fits == slower # NoTier /\ Size[blocks[v].payload] <= CapacityOf(slower)
           b == IF fits THEN demoted ELSE NoBlock
<1>1. /\ StoreInv /\ CapacityBound /\ ControlType
      /\ clock \in Nat /\ t \in Tier /\ op # "idle"
  BY DEF Inv, TypeOK, StoreInv, QueueType, ControlType
<1>2. /\ Resettle(v, b)
      /\ clock' = IF slower = NoTier THEN clock ELSE clock + 1
      /\ frames' = IF fits THEN frames \cup {slower} ELSE frames
      /\ UNCHANGED <<op, todo, ret>>
  BY DEF Evict
<1>3. blocks[v] \in StoredBlock /\ t \in Configured
  <2>1. blocks[v] \in StoredBlock
    BY <1>1, InTier DEF StoreInv, StoreType
  <2> QED BY <2>1 DEF StoredBlock
<1>4. slower \in Configured \cup {NoTier} /\ slower > t /\ slower # Fastest
  <2>1. slower \in Configured \cup {NoTier} /\ slower > t
    BY <1>1, NextSlowerType
  <2>2. Fastest <= t /\ Fastest \in Configured \cup {NoTier} /\ Configured \subseteq Tier
    BY <1>3, FastestType
  <2> HIDE DEF slower
  <2> QED BY <1>1, <2>1, <2>2 DEF Tier, NoTier
<1>5. fits => b \in StoredBlock /\ b.tier = slower
  BY <1>1, <1>3, <1>4, DemotedType
<1>6. ~fits => b = NoBlock /\ b.tier = NoTier
  BY DEF NoBlock
<1> HIDE DEF b, demoted
<1>7. /\ StoreInv'
      /\ blocks'[v] = b
      /\ \A j \in Key \ {v} : blocks'[j] = blocks[j]
      /\ \A u \in Tier : b.tier # u => used'[u] <= used[u]
  BY <1>1, <1>2, <1>5, <1>6, ResettleInv
<1>8. ~InSmall(v)' /\ ~InMain(v)'
  <2>1. b.tier # Fastest \/ b.tier = NoTier
    BY <1>4, <1>5, <1>6
  <2> QED BY <1>7, <2>1 DEF InSmall, InMain, Resident
<1>9. ControlType' /\ VictimFound'
  BY <1>1, <1>2, <1>4, FastestType DEF ControlType, VictimFound, Inv
<1>10. CapacityBound'
  <2>1. ASSUME NEW u \in Tier \ frames'
        PROVE  used'[u] <= EvictionThresholdOf(u)
    <3>1. u \notin frames /\ used[u] <= EvictionThresholdOf(u)
      BY <1>1, <1>2 DEF CapacityBound
    <3>2. b.tier # u
      BY <1>2, <1>5, <1>6, InTier DEF NoTier, Tier
    <3>3. used'[u] <= used[u] /\ used[u] \in Nat /\ used'[u] \in Nat
      BY <1>1, <1>7, <3>2 DEF StoreInv, StoreType
    <3> QED BY <3>1, <3>3, ThresholdType
  <2> QED BY <2>1 DEF CapacityBound
<1>11. clock' \in Nat
  BY <1>1, <1>2
<1> QED BY <1>7, <1>8, <1>9, <1>10, <1>11

\* The victims that the indexes name are blocks of the tier being enforced.
LEMMA VictimInTier ==
  ASSUME Inv, NEW t \in Tier
  PROVE  \A v \in QuotaVictims(t) \cup LruVictims(t) :
           v \in Key /\ blocks[v].tier = t
<1>1. IndexSync
  BY DEF Inv
<1>2. ASSUME NEW v \in LruVictims(t) PROVE v \in Key /\ blocks[v].tier = t
  <2>1. PICK e \in victimIndex[t] : v = e[2]
    BY DEF LruVictims, Oldest
  <2>2. Indexes(victimIndex[t], {k \in Key : t # Fastest /\ blocks[k].tier = t})
    BY <1>1 DEF IndexSync
  <2> QED BY <2>1, <2>2 DEF Indexes
<1>3. ASSUME NEW v \in QuotaVictims(t) PROVE v \in Key /\ blocks[v].tier = t
  <2>1. QuotaEnabled
    BY DEF QuotaVictims
  <2>2. PICK n \in Tenant : \E e \in tenantIndex[t][n] : v = e[2]
    BY <2>1 DEF QuotaVictims, Oldest, WorstTenants
  <2>3. PICK e \in tenantIndex[t][n] : v = e[2]
    BY <2>2
  <2>4. Indexes(tenantIndex[t][n],
                {k \in Key : blocks[k].tier = t /\ blocks[k].tenant = n})
    BY <1>1, <2>1 DEF IndexSync
  <2> QED BY <2>3, <2>4 DEF Indexes
<1> QED BY <1>2, <1>3

\* Eviction by quota and by LRU leaves the queues alone.
LEMMA EvictIndexInv ==
  ASSUME Inv, NEW t \in Tier, EvictQuota(t) \/ EvictLru(t)
  PROVE  Inv'
<1>1. t \in frames /\ UNCHANGED queues
  BY DEF EvictQuota, EvictLru, Evicting, Innermost
<1>2. PICK v \in QuotaVictims(t) \cup LruVictims(t) : Evict(v, t)
  BY DEF EvictQuota, EvictLru
<1>3. v \in Key /\ blocks[v].tier = t
  BY VictimInTier
<1>4. /\ StoreInv' /\ ControlType' /\ CapacityBound' /\ VictimFound'
      /\ clock' \in Nat
      /\ \A j \in Key \ {v} : blocks'[j] = blocks[j]
      /\ ~InSmall(v)' /\ ~InMain(v)'
  BY <1>1, <1>2, <1>3, EvictInv
<1>5. QueueType'
  BY <1>1, <1>4 DEF queues, QueueType, Inv, TypeOK
<1>6. QueueCoverage'
  <2>1. \A j \in Key : (InSmall(j)' => InSmall(j)) /\ (InMain(j)' => InMain(j))
    BY <1>3, <1>4, MembershipKept
  <2>2. Elements(smallFifo)' = Elements(smallFifo) /\ Elements(mainFifo)' = Elements(mainFifo)
    BY <1>1 DEF Elements, queues
  <2> QED BY <2>1, <2>2 DEF QueueCoverage, Inv
<1> QED BY <1>4, <1>5, <1>6 DEF Inv, TypeOK, StoreInv

\* Eviction by S3-FIFO pops its victim from one of the queues.
LEMMA EvictQueueInv ==
  ASSUME Inv, S3SmallEvict \/ S3MainEvict
  PROVE  Inv'
<1>1. /\ Fastest \in frames /\ QueueType /\ QueueCoverage
      /\ smallFifo \in Seq(Key) /\ mainFifo \in Seq(Key)
  BY DEF S3SmallEvict, S3MainEvict, PickingSmall, PickingMain, Evicting,
         Innermost, Inv, TypeOK, QueueType
<1>2. CASE S3SmallEvict
  <2>0. smallFifo # <<>> /\ Head(smallFifo) \in Key
    BY <1>1, <1>2, ElementsTail DEF S3SmallEvict, PickingSmall
  <2> PICK v \in Key : v = Head(smallFifo)
    BY <2>0
  <2>1. /\ smallFifo # <<>> /\ InSmall(v) /\ Evict(v, Fastest)
        /\ smallFifo' = Tail(smallFifo) /\ UNCHANGED mainFifo
        /\ GhostInsertLocked(v)
    BY <1>2 DEF S3SmallEvict, PickingSmall
  <2>2. v \in Key /\ Tail(smallFifo) \in Seq(Key)
    BY <1>1, <2>1, ElementsTail
  <2>3. blocks[v].tier = Fastest
    BY <2>1 DEF InSmall
  <2>4. /\ StoreInv' /\ ControlType' /\ CapacityBound' /\ VictimFound'
        /\ clock' \in Nat
        /\ \A j \in Key \ {v} : blocks'[j] = blocks[j]
        /\ ~InSmall(v)' /\ ~InMain(v)'
    BY <1>1, <2>1, <2>2, <2>3, EvictInv
  <2>5. ghost' \in SUBSET Key /\ ghostFifo' \in Seq(Key)
    <3>1. Append(ghostFifo, v) \in Seq(Key) /\ Append(ghostFifo, v) # <<>>
      BY <1>1, <2>2, ElementsAppend DEF QueueType
    <3>2. Tail(Append(ghostFifo, v)) \in Seq(Key)
      BY <3>1, ElementsTail
    <3> QED BY <1>1, <2>1, <2>2, <3>1, <3>2 DEF GhostInsertLocked, QueueType
  <2>6. QueueType'
    BY <1>1, <2>1, <2>2, <2>4, <2>5 DEF QueueType
  <2>7. \A j \in Key :
          /\ InSmall(j)' => InSmall(j) /\ j # v
          /\ InMain(j)' => InMain(j)
    BY <2>2, <2>4, MembershipKept
  <2>8. \A j \in Key : InSmall(j)' => j \in Elements(Tail(smallFifo))
    BY <1>1, <2>1, <2>7, ElementsTail DEF QueueCoverage
  <2>9. QueueCoverage'
    <3>1. Elements(smallFifo)' = Elements(Tail(smallFifo)) /\ Elements(mainFifo)' = Elements(mainFifo)
      BY <2>1 DEF Elements
    <3> QED BY <1>1, <2>7, <2>8, <3>1 DEF QueueCoverage
  <2> QED BY <2>4, <2>6, <2>9 DEF Inv, TypeOK, StoreInv
<1>3. CASE S3MainEvict
  <2>0. mainFifo # <<>> /\ Head(mainFifo) \in Key
    BY <1>1, <1>3, ElementsTail DEF S3MainEvict, PickingMain, FromSmall
  <2> PICK v \in Key : v = Head(mainFifo)
    BY <2>0
  <2>1. /\ mainFifo # <<>> /\ InMain(v) /\ Evict(v, Fastest)
        /\ mainFifo' = Tail(mainFifo)
        /\ UNCHANGED <<smallFifo, ghost, ghostFifo>>
    BY <1>3 DEF S3MainEvict, PickingMain, FromSmall
  <2>2. v \in Key /\ Tail(mainFifo) \in Seq(Key)
    BY <1>1, <2>1, ElementsTail
  <2>3. blocks[v].tier = Fastest
    BY <2>1 DEF InMain
  <2>4. /\ StoreInv' /\ ControlType' /\ CapacityBound' /\ VictimFound'
        /\ clock' \in Nat
        /\ \A j \in Key \ {v} : blocks'[j] = blocks[j]
        /\ ~InSmall(v)' /\ ~InMain(v)'
    BY <1>1, <2>1, <2>2, <2>3, EvictInv
  <2>5. QueueType'
    BY <1>1, <2>1, <2>2, <2>4 DEF QueueType
  <2>6. \A j \in Key :
          /\ InSmall(j)' => InSmall(j)
          /\ InMain(j)' => InMain(j) /\ j # v
    BY <2>2, <2>4, MembershipKept
  <2>7. \A j \in Key : InMain(j)' => j \in Elements(Tail(mainFifo))
    BY <1>1, <2>1, <2>6, ElementsTail DEF QueueCoverage
  <2>8. QueueCoverage'
    <3>1. Elements(mainFifo)' = Elements(Tail(mainFifo)) /\ Elements(smallFifo)' = Elements(smallFifo)
      BY <2>1 DEF Elements
    <3> QED BY <1>1, <2>6, <2>7, <3>1 DEF QueueCoverage
  <2> QED BY <2>4, <2>5, <2>8 DEF Inv, TypeOK, StoreInv
<1> QED BY <1>2, <1>3

\* A step that changes frequencies and queues only keeps the books.
LEMMA QueueStepStore ==
  ASSUME StoreInv, blocks' \in [Key -> StoredBlock \cup {NoBlock}],
         \A j \in Key : /\ blocks'[j].tier = blocks[j].tier
                        /\ blocks'[j].payload = blocks[j].payload
                        /\ blocks'[j].tenant = blocks[j].tenant
                        /\ blocks'[j].ts = blocks[j].ts,
         UNCHANGED <<used, victimIndex, tenantUsed, tenantIndex>>,
         smallUsed' = Bytes({j \in Key : InSmall(j)})'
  PROVE  StoreInv'
<1>1. \A S \in SUBSET Key : ByteSet(blocks', S) = ByteSet(blocks, S)
  BY ByteSetAgree
<1>2. smallUsed' \in Nat
  BY ByteSetFinite DEF Bytes
<1>3. StoreType'
  BY <1>2 DEF StoreInv, StoreType
<1>4. ByteAccounting'
  <2>1. ASSUME NEW t \in Tier
        PROVE  used'[t] = Bytes({j \in Key : blocks[j].tier = t})'
    <3> DEFINE S == {j \in Key : blocks[j].tier = t}
    <3>1. {j \in Key : blocks'[j].tier = t} = S
      OBVIOUS
    <3>2. used[t] = Cardinality(ByteSet(blocks, S))
      BY DEF StoreInv, ByteAccounting, Bytes
    <3>3. ByteSet(blocks', S) = ByteSet(blocks, S)
      BY <1>1
    <3> QED BY <3>1, <3>2, <3>3 DEF Bytes
  <2>2. ASSUME QuotaEnabled, NEW t \in Tier, NEW n \in Tenant
        PROVE  tenantUsed'[t][n] =
                 Bytes({j \in Key : blocks[j].tier = t /\ blocks[j].tenant = n})'
    <3> DEFINE S == {j \in Key : blocks[j].tier = t /\ blocks[j].tenant = n}
    <3>1. {j \in Key : blocks'[j].tier = t /\ blocks'[j].tenant = n} = S
      OBVIOUS
    <3>2. tenantUsed[t][n] = Cardinality(ByteSet(blocks, S))
      BY <2>2 DEF StoreInv, ByteAccounting, Bytes
    <3>3. ByteSet(blocks', S) = ByteSet(blocks, S)
      BY <1>1
    <3> QED BY <3>1, <3>2, <3>3 DEF Bytes
  <2> QED BY <2>1, <2>2 DEF ByteAccounting
<1>5. IndexSync'
  <2>1. ASSUME NEW t \in Tier
        PROVE  Indexes(victimIndex[t],
                       {j \in Key : t # Fastest /\ blocks[j].tier = t})'
    BY DEF StoreInv, IndexSync, Indexes
  <2>2. ASSUME QuotaEnabled, NEW t \in Tier, NEW n \in Tenant
        PROVE  Indexes(tenantIndex[t][n],
                       {j \in Key : blocks[j].tier = t /\ blocks[j].tenant = n})'
    BY <2>2 DEF StoreInv, IndexSync, Indexes
  <2> QED BY <2>1, <2>2 DEF IndexSync
<1> QED BY <1>3, <1>4, <1>5 DEF StoreInv

\* A change of queue or frequency keeps the rest of the record.
LEMMA RequeuedType ==
  ASSUME NEW x \in StoredBlock, NEW m \in BOOLEAN, NEW f \in 0..3
  PROVE  LET z == [x EXCEPT !.inMain = m, !.freq = f]
         IN  /\ z \in StoredBlock /\ z.inMain = m
             /\ z.tier = x.tier /\ z.payload = x.payload
             /\ z.tenant = x.tenant /\ z.ts = x.ts
<1> DEFINE y == [x EXCEPT !.inMain = m]
<1>1. /\ y \in StoredBlock /\ y.inMain = m
      /\ y.tier = x.tier /\ y.payload = x.payload
      /\ y.tenant = x.tenant /\ y.ts = x.ts
  BY DEF StoredBlock
<1>2. [x EXCEPT !.inMain = m, !.freq = f] = [y EXCEPT !.freq = f]
  OBVIOUS
<1> HIDE DEF y
<1> QED BY <1>1, <1>2 DEF StoredBlock

\* A reused block of the small queue moves to the main queue.
LEMMA SmallToMainInv ==
  ASSUME Inv, S3SmallToMain
  PROVE  Inv'
<1>1. /\ StoreInv /\ QueueType /\ QueueCoverage /\ ControlType
      /\ CapacityBound /\ VictimFound /\ smallFifo \in Seq(Key)
      /\ mainFifo \in Seq(Key)
      /\ blocks \in [Key -> StoredBlock \cup {NoBlock}]
  BY DEF Inv, TypeOK, StoreInv, QueueType, StoreType
<1>2. smallFifo # <<>> /\ Head(smallFifo) \in Key /\ Tail(smallFifo) \in Seq(Key)
  BY <1>1, ElementsTail DEF S3SmallToMain, PickingSmall
<1> PICK k \in Key : k = Head(smallFifo)
  BY <1>2
<1> DEFINE b == [blocks[k] EXCEPT !.inMain = TRUE, !.freq = 0]
<1>3. /\ InSmall(k)
      /\ blocks' = [blocks EXCEPT ![k] = b]
      /\ smallUsed' = smallUsed - Size[blocks[k].payload]
      /\ smallFifo' = Tail(smallFifo)
      /\ mainFifo' = Append(mainFifo, k)
      /\ UNCHANGED <<used, victimIndex, tenantUsed, tenantIndex, ghost,
                     ghostFifo, clock, op, todo, frames, ret>>
  BY <1>1 DEF S3SmallToMain, control
<1>4. blocks[k] \in StoredBlock
  BY <1>1, <1>3, InTier DEF InSmall, Resident
<1>a. /\ b \in StoredBlock /\ b.inMain
      /\ b.tier = blocks[k].tier /\ b.payload = blocks[k].payload
      /\ b.tenant = blocks[k].tenant /\ b.ts = blocks[k].ts
  <2>1. 0 \in 0..3 /\ TRUE \in BOOLEAN
    OBVIOUS
  <2>2. /\ b \in StoredBlock /\ b.inMain = TRUE
        /\ b.tier = blocks[k].tier /\ b.payload = blocks[k].payload
        /\ b.tenant = blocks[k].tenant /\ b.ts = blocks[k].ts
    BY <1>4, <2>1, RequeuedType, Zenon
  <2> QED BY <2>2
<1> HIDE DEF b
<1>5. /\ blocks'[k] \in StoredBlock
      /\ blocks'[k].tier = blocks[k].tier /\ blocks'[k].inMain
      /\ blocks'[k].payload = blocks[k].payload
      /\ blocks'[k].tenant = blocks[k].tenant /\ blocks'[k].ts = blocks[k].ts
  BY <1>1, <1>3, <1>a
<1>6. /\ \A j \in Key \ {k} : blocks'[j] = blocks[j]
      /\ blocks' \in [Key -> StoredBlock \cup {NoBlock}]
  BY <1>1, <1>3, <1>a
<1>7. smallUsed' = Bytes({j \in Key : InSmall(j)})'
  <2> DEFINE S == {j \in Key : InSmall(j)}
  <2>1. {j \in Key : InSmall(j)'} = S \ {k}
    BY <1>5, <1>6 DEF InSmall, Resident
  <2>2. k \in S /\ blocks[k].payload \in Payload
    BY <1>3, <1>4 DEF StoredBlock
  <2>3. smallUsed = Cardinality(ByteSet(blocks, S))
    BY <1>1 DEF StoreInv, ByteAccounting, Bytes
  <2>4. Cardinality(ByteSet(blocks, S)) =
          Cardinality(ByteSet(blocks, S \ {k})) + Size[blocks[k].payload]
    <3> HIDE DEF S
    <3> QED BY <2>2, ByteSetSplit
  <2>5. ByteSet(blocks', S \ {k}) = ByteSet(blocks, S \ {k})
    <3>1. \A j \in S \ {k} : blocks'[j].payload = blocks[j].payload
      BY <1>6
    <3> HIDE DEF S
    <3> QED BY <3>1, ByteSetAgree
  <2>6. /\ Cardinality(ByteSet(blocks, S \ {k})) \in Nat
        /\ Size[blocks[k].payload] \in Nat
    BY <2>2, ByteSetFinite, SizeType
  <2>7. smallUsed' = Cardinality(ByteSet(blocks', S \ {k}))
    <3> HIDE DEF S
    <3> QED BY <1>3, <2>3, <2>4, <2>5, <2>6
  <2> QED BY <2>1, <2>7 DEF Bytes
<1>8. StoreInv'
  BY <1>1, <1>3, <1>5, <1>6, <1>7, QueueStepStore
<1>9. QueueType' /\ ControlType' /\ CapacityBound' /\ VictimFound'
  BY <1>1, <1>2, <1>3, ElementsAppend
  DEF QueueType, ControlType, CapacityBound, VictimFound
<1>10. QueueCoverage'
  <2>1. ASSUME NEW j \in Key
        PROVE  /\ InSmall(j)' => j \in Elements(Tail(smallFifo))
               /\ InMain(j)' => j \in Elements(Append(mainFifo, k))
    <3>1. CASE j = k
      BY <1>1, <1>5, <3>1, ElementsAppend DEF InSmall
    <3>2. CASE j # k
      <4>1. InSmall(j)' = InSmall(j) /\ InMain(j)' = InMain(j)
        BY <1>6, <3>2, MembershipKept
      <4> QED BY <1>1, <1>2, <3>2, <4>1, ElementsAppend, ElementsTail
              DEF QueueCoverage
    <3> QED BY <3>1, <3>2
  <2>2. /\ Elements(smallFifo)' = Elements(Tail(smallFifo))
        /\ Elements(mainFifo)' = Elements(Append(mainFifo, k))
    BY <1>3 DEF Elements
  <2> QED BY <2>1, <2>2 DEF QueueCoverage
<1> QED BY <1>8, <1>9, <1>10 DEF Inv, TypeOK, StoreInv

\* A used block of the main queue goes round again for one frequency.
LEMMA SecondChanceInv ==
  ASSUME Inv, S3MainSecondChance
  PROVE  Inv'
<1>1. /\ StoreInv /\ QueueType /\ QueueCoverage /\ ControlType
      /\ CapacityBound /\ VictimFound /\ mainFifo \in Seq(Key)
      /\ blocks \in [Key -> StoredBlock \cup {NoBlock}]
  BY DEF Inv, TypeOK, StoreInv, QueueType, StoreType
<1>2. mainFifo # <<>> /\ Head(mainFifo) \in Key /\ Tail(mainFifo) \in Seq(Key)
  BY <1>1, ElementsTail DEF S3MainSecondChance, PickingMain, FromSmall
<1> PICK k \in Key : k = Head(mainFifo)
  BY <1>2
<1> DEFINE b == [blocks[k] EXCEPT !.freq = @ - 1]
<1>3. /\ InMain(k) /\ blocks[k].freq > 0
      /\ blocks' = [blocks EXCEPT ![k] = b]
      /\ mainFifo' = Append(Tail(mainFifo), k)
      /\ UNCHANGED <<used, victimIndex, smallUsed, tenantUsed, tenantIndex,
                     smallFifo, ghost, ghostFifo, clock, op, todo, frames, ret>>
  BY <1>1 DEF S3MainSecondChance, control
<1>4. blocks[k] \in StoredBlock
  BY <1>1, <1>3, InTier DEF InMain, Resident
<1>5. /\ b \in StoredBlock /\ b.inMain = blocks[k].inMain
      /\ b.tier = blocks[k].tier /\ b.payload = blocks[k].payload
      /\ b.tenant = blocks[k].tenant /\ b.ts = blocks[k].ts
  <2>1. ASSUME NEW x \in StoredBlock, x.freq > 0
        PROVE  LET z == [x EXCEPT !.freq = @ - 1]
               IN  /\ z \in StoredBlock /\ z.inMain = x.inMain
                   /\ z.tier = x.tier /\ z.payload = x.payload
                   /\ z.tenant = x.tenant /\ z.ts = x.ts
    BY <2>1 DEF StoredBlock
  <2> QED BY <1>3, <1>4, <2>1
<1> HIDE DEF b
<1>6. /\ blocks' \in [Key -> StoredBlock \cup {NoBlock}]
      /\ \A j \in Key : /\ blocks'[j].tier = blocks[j].tier
                        /\ blocks'[j].payload = blocks[j].payload
                        /\ blocks'[j].tenant = blocks[j].tenant
                        /\ blocks'[j].ts = blocks[j].ts
                        /\ blocks'[j].inMain = blocks[j].inMain
  BY <1>1, <1>3, <1>5
<1>7. \A j \in Key : (InSmall(j)' <=> InSmall(j)) /\ (InMain(j)' <=> InMain(j))
  BY <1>6 DEF InSmall, InMain, Resident
<1>8. smallUsed' = Bytes({j \in Key : InSmall(j)})'
  <2> DEFINE S == {j \in Key : InSmall(j)}
  <2>1. {j \in Key : InSmall(j)'} = S
    BY <1>7
  <2>2. smallUsed = Cardinality(ByteSet(blocks, S))
    BY <1>1 DEF StoreInv, ByteAccounting, Bytes
  <2>3. ByteSet(blocks', S) = ByteSet(blocks, S)
    <3>1. \A j \in S : blocks'[j].payload = blocks[j].payload
      BY <1>6
    <3>2. S \subseteq Key
      OBVIOUS
    <3> HIDE DEF S
    <3> QED BY <3>1, <3>2, ByteSetAgree
  <2> QED BY <1>3, <2>1, <2>2, <2>3 DEF Bytes
<1>9. StoreInv'
  BY <1>1, <1>3, <1>6, <1>8, QueueStepStore
<1>10. QueueType' /\ ControlType' /\ CapacityBound' /\ VictimFound'
  BY <1>1, <1>2, <1>3, ElementsAppend
  DEF QueueType, ControlType, CapacityBound, VictimFound
<1>11. QueueCoverage'
  <2>1. Elements(mainFifo) \subseteq Elements(Append(Tail(mainFifo), k))
    BY <1>1, <1>2, ElementsAppend, ElementsTail
  <2>2. /\ Elements(smallFifo)' = Elements(smallFifo)
        /\ Elements(mainFifo)' = Elements(Append(Tail(mainFifo), k))
    BY <1>3 DEF Elements
  <2> QED BY <1>1, <1>7, <2>1, <2>2 DEF QueueCoverage
<1> QED BY <1>9, <1>10, <1>11 DEF Inv, TypeOK, StoreInv

\* A step that leaves the block map and its books alone.
LEMMA StoreKept ==
  ASSUME StoreInv, UNCHANGED store
  PROVE  /\ StoreInv'
         /\ \A j \in Key : InSmall(j)' = InSmall(j) /\ InMain(j)' = InMain(j)
<1>1. UNCHANGED <<blocks, used, victimIndex, smallUsed, tenantUsed, tenantIndex>>
  BY DEF store
<1>2. StoreType'
  BY <1>1 DEF StoreInv, StoreType
<1>3. \A j \in Key : InSmall(j)' = InSmall(j) /\ InMain(j)' = InMain(j)
  BY <1>1 DEF InSmall, InMain, Resident
<1>4. ByteAccounting'
  BY <1>1 DEF StoreInv, ByteAccounting, Bytes, InSmall, Resident
<1>5. IndexSync'
  BY <1>1 DEF StoreInv, IndexSync, Indexes
<1> QED BY <1>2, <1>3, <1>4, <1>5 DEF StoreInv

\* Dropping a queue entry whose block is not in that queue.
LEMMA StaleInv ==
  ASSUME Inv, S3SmallStale \/ S3MainStale
  PROVE  Inv'
<1>1. /\ QueueType /\ QueueCoverage
      /\ smallFifo \in Seq(Key) /\ mainFifo \in Seq(Key)
  BY DEF Inv, TypeOK, QueueType
<1>2. UNCHANGED <<blocks, used, victimIndex, smallUsed, tenantUsed, tenantIndex,
                  ghost, ghostFifo, clock, op, todo, frames, ret>>
  BY DEF S3SmallStale, S3MainStale, store, control
<1>3. /\ StoreInv' /\ ControlType' /\ CapacityBound' /\ VictimFound'
      /\ \A j \in Key : InSmall(j)' = InSmall(j) /\ InMain(j)' = InMain(j)
  <2>1. /\ StoreInv'
        /\ \A j \in Key : InSmall(j)' = InSmall(j) /\ InMain(j)' = InMain(j)
    BY <1>2, StoreKept DEF Inv, TypeOK, StoreInv, store
  <2>2. ControlType' /\ CapacityBound' /\ VictimFound'
    BY <1>2 DEF Inv, TypeOK, ControlType, CapacityBound, VictimFound
  <2> QED BY <2>1, <2>2
<1>4. CASE S3SmallStale
  <2>1. /\ smallFifo # <<>> /\ ~InSmall(Head(smallFifo))
        /\ smallFifo' = Tail(smallFifo) /\ mainFifo' = mainFifo
    BY <1>4 DEF S3SmallStale, PickingSmall
  <2>2. \A j \in Key : InSmall(j) => j \in Elements(Tail(smallFifo))
    BY <1>1, <2>1, ElementsTail DEF QueueCoverage
  <2>3. /\ Elements(smallFifo)' = Elements(Tail(smallFifo))
        /\ Elements(mainFifo)' = Elements(mainFifo)
    BY <2>1 DEF Elements
  <2>4. QueueType' /\ QueueCoverage'
    BY <1>1, <1>2, <1>3, <2>1, <2>2, <2>3, ElementsTail DEF QueueCoverage, QueueType
  <2> QED BY <1>3, <2>4 DEF Inv, TypeOK, StoreInv
<1>5. CASE S3MainStale
  <2>1. /\ mainFifo # <<>> /\ ~InMain(Head(mainFifo))
        /\ mainFifo' = Tail(mainFifo) /\ smallFifo' = smallFifo
    BY <1>5 DEF S3MainStale, PickingMain, FromSmall
  <2>2. \A j \in Key : InMain(j) => j \in Elements(Tail(mainFifo))
    BY <1>1, <2>1, ElementsTail DEF QueueCoverage
  <2>3. /\ Elements(smallFifo)' = Elements(smallFifo)
        /\ Elements(mainFifo)' = Elements(Tail(mainFifo))
    BY <2>1 DEF Elements
  <2>4. QueueType' /\ QueueCoverage'
    BY <1>1, <1>2, <1>3, <2>1, <2>2, <2>3, ElementsTail DEF QueueCoverage, QueueType
  <2> QED BY <1>3, <2>4 DEF Inv, TypeOK, StoreInv
<1> QED BY <1>4, <1>5

\* A tier that holds bytes has a victim: a block of it is in an index or in
\* a queue.
LEMMA VictimExists ==
  ASSUME Inv, NEW t \in Tier, used[t] > 0
  PROVE  ~NoVictim(t)
<1> DEFINE S == {k \in Key : blocks[k].tier = t}
<1>1. StoreType /\ ByteAccounting /\ IndexSync /\ QueueCoverage
  BY DEF Inv, TypeOK
<1>2. used[t] = Cardinality(ByteSet(blocks, S))
  BY <1>1 DEF ByteAccounting, Bytes
<1>3. S # {}
  <2>1. SUFFICES ASSUME S = {} PROVE FALSE
    OBVIOUS
  <2>2. Cardinality(ByteSet(blocks, {})) = 0
    BY ByteSetEmpty
  <2>3. used[t] = 0
    BY <1>2, <2>1, <2>2
  <2> QED BY <2>3
<1>4. PICK k \in Key : blocks[k].tier = t
  BY <1>3
<1>5. CASE t = Fastest
  <2>1. InSmall(k) \/ InMain(k)
    BY <1>4, <1>5 DEF InSmall, InMain, Resident, Tier, NoTier
  <2>2. k \in Elements(smallFifo) \cup Elements(mainFifo)
    BY <1>1, <2>1 DEF QueueCoverage
  <2>3. Elements(<<>>) = {}
    BY DEF Elements
  <2>4. ~(smallFifo = <<>> /\ mainFifo = <<>>)
    BY <2>2, <2>3
  <2> QED BY <1>5, <2>4 DEF NoVictim
<1>6. CASE t # Fastest
  <2>1. Indexes(victimIndex[t], {j \in Key : t # Fastest /\ blocks[j].tier = t})
    BY <1>1 DEF IndexSync
  <2>2. <<blocks[k].ts, k>> \in victimIndex[t]
    BY <1>4, <1>6, <2>1 DEF Indexes
  <2> QED BY <1>6, <2>2 DEF NoVictim
<1> QED BY <1>5, <1>6

\* EnforceCapacityLocked returns with its tier at or below the threshold.
LEMMA LeaveEnforceInv ==
  ASSUME Inv, NEW t \in Tier, LeaveEnforce(t)
  PROVE  Inv'
<1>1. /\ StoreInv /\ QueueType /\ QueueCoverage /\ ControlType
      /\ CapacityBound /\ VictimFound /\ used[t] \in Nat
  BY DEF Inv, TypeOK, StoreInv, StoreType
<1>2. t \in frames /\ UNCHANGED <<store, queues, clock>>
  BY DEF LeaveEnforce, Innermost
<1>3. used[t] <= EvictionThresholdOf(t)
  <2>1. ASSUME used[t] > EvictionThresholdOf(t) PROVE FALSE
    <3>1. used[t] > 0
      BY <1>1, <2>1, ThresholdType
    <3>2. NoVictim(t)
      BY <1>1, <2>1, ThresholdType DEF LeaveEnforce
    <3> QED BY <3>1, <3>2, VictimExists
  <2> QED BY <1>1, <2>1, ThresholdType
<1>4. frames' = frames \ {t} /\ UNCHANGED <<op, todo, ret>>
  BY <1>3 DEF LeaveEnforce
<1>5. /\ StoreInv'
      /\ \A j \in Key : InSmall(j)' = InSmall(j) /\ InMain(j)' = InMain(j)
  BY <1>1, <1>2, StoreKept
<1>6. QueueType' /\ QueueCoverage'
  BY <1>1, <1>2, <1>5 DEF QueueType, QueueCoverage, queues, Elements
<1>7. ControlType' /\ VictimFound'
  BY <1>1, <1>4 DEF ControlType, VictimFound
<1>8. CapacityBound'
  BY <1>1, <1>2, <1>3, <1>4 DEF CapacityBound, store
<1> QED BY <1>5, <1>6, <1>7, <1>8 DEF Inv, TypeOK, StoreInv

\* Calls and returns that touch neither the blocks nor the queues.
LEMMA ControlInv ==
  ASSUME Inv, UNCHANGED <<store, queues, clock>>, ControlType', VictimFound',
         frames \subseteq frames'
  PROVE  Inv'
<1>1. StoreInv /\ QueueType /\ QueueCoverage /\ CapacityBound
  BY DEF Inv, TypeOK, StoreInv
<1>2. /\ StoreInv'
      /\ \A j \in Key : InSmall(j)' = InSmall(j) /\ InMain(j)' = InMain(j)
  BY <1>1, StoreKept
<1>3. QueueType' /\ QueueCoverage'
  BY <1>1, <1>2 DEF QueueType, QueueCoverage, queues, Elements
<1>4. CapacityBound'
  BY <1>1 DEF CapacityBound, store
<1> QED BY <1>2, <1>3, <1>4 DEF Inv, TypeOK, StoreInv

----------------------------------------------------------------------------
(* Theorems *)

\* The store starts empty, with every book at zero.
LEMMA InitInv == Init => Inv
<1> SUFFICES ASSUME Init PROVE Inv
  OBVIOUS
<1>1. blocks = [k \in Key |-> NoBlock] /\ \A k \in Key : blocks[k].tier = NoTier
  BY DEF Init, NoBlock
<1>2. TypeOK
  BY <1>1 DEF Init, TypeOK, StoreType, QueueType, ControlType, Status
<1>3. \A t \in Tier : {k \in Key : blocks[k].tier = t} = {}
  BY <1>1 DEF Tier, NoTier
<1>4. \A k \in Key : ~InSmall(k) /\ ~InMain(k)
  BY <1>1 DEF InSmall, InMain, Resident
<1>5. ByteAccounting
  <2>1. Bytes({}) = 0
    BY ByteSetEmpty DEF Bytes
  <2>2. \A t \in Tier : used[t] = Bytes({k \in Key : blocks[k].tier = t})
    BY <1>3, <2>1 DEF Init
  <2>3. smallUsed = Bytes({k \in Key : InSmall(k)})
    <3>1. {k \in Key : InSmall(k)} = {}
      BY <1>4
    <3> QED BY <2>1, <3>1 DEF Init
  <2>4. ASSUME NEW t \in Tier, NEW n \in Tenant
        PROVE  tenantUsed[t][n] =
                 Bytes({k \in Key : blocks[k].tier = t /\ blocks[k].tenant = n})
    <3>1. {k \in Key : blocks[k].tier = t /\ blocks[k].tenant = n} = {}
      BY <1>3
    <3> QED BY <2>1, <3>1 DEF Init
  <2> QED BY <2>2, <2>3, <2>4 DEF ByteAccounting
<1>6. IndexSync
  BY <1>3 DEF Init, IndexSync, Indexes
<1>7. QueueCoverage
  BY <1>4 DEF QueueCoverage
<1>8. CapacityBound
  BY ThresholdType DEF Init, CapacityBound
<1>9. VictimFound
  BY DEF Init, VictimFound
<1> QED BY <1>2, <1>5, <1>6, <1>7, <1>8, <1>9 DEF Inv

\* Every step of a call keeps the invariant.
LEMMA NextInv == Inv /\ [Next]_vars => Inv'
<1> SUFFICES ASSUME Inv, [Next]_vars PROVE Inv'
  OBVIOUS
<1>0. ControlType /\ VictimFound /\ StoreType
  BY DEF Inv, TypeOK
<1>1. ASSUME NEW k \in Key, NEW p \in Payload, NEW t \in Tier, NEW n \in Tenant,
             Write(k, p, t, n)
      PROVE  Inv'
  BY <1>1, WriteInv
<1>2. ASSUME NEW p \in Payload, NEW t \in Tier, WriteRejected(p, t)
      PROVE  Inv'
  <2>1. ControlType' /\ VictimFound' /\ frames = {} /\ UNCHANGED <<store, queues, clock>>
    BY <1>0, <1>2 DEF WriteRejected, Return, ControlType, VictimFound, Status
  <2> QED BY <2>1, ControlInv
<1>3. ASSUME NEW k \in Key, ReadMiss(k) PROVE Inv'
  <2>1. ControlType' /\ VictimFound' /\ frames = {} /\ UNCHANGED <<store, queues, clock>>
    BY <1>0, <1>3 DEF ReadMiss, Return, ControlType, VictimFound, Status
  <2> QED BY <2>1, ControlInv
<1>4. ASSUME NEW k \in Key, ReadFast(k) \/ ReadSlowInPlace(k) PROVE Inv'
  BY <1>4, ReadInv
<1>5. ASSUME NEW k \in Key, ReadPromote(k) PROVE Inv'
  BY <1>5, PromoteInv
<1>6. ASSUME NEW keys \in KeyLists, Prefetch(keys) PROVE Inv'
  <2>1. keys \in Seq(Key)
    <3>1. PICK n \in 0..MaxPredicted : keys \in [1..n -> Key]
      BY DEF KeyLists
    <3>2. n \in Nat
      BY BoundAssumption
    <3> QED BY <3>1, <3>2
  <2>2. ControlType' /\ VictimFound' /\ frames = {} /\ UNCHANGED <<store, queues, clock>>
    BY <1>0, <1>6, <2>1 DEF Prefetch, Call, ControlType, VictimFound
  <2> QED BY <2>2, ControlInv
<1>7. ASSUME NEW t \in Tier, EnforceCapacity(t) PROVE Inv'
  <2>1. ControlType' /\ VictimFound' /\ frames = {} /\ UNCHANGED <<store, queues, clock>>
    BY <1>0, <1>7 DEF EnforceCapacity, Call, ControlType, VictimFound
  <2> QED BY <2>1, ControlInv
<1>8. CASE FinishRead
  <2>1. todo # <<>> /\ todo \in Seq(Key)
    BY <1>0, <1>8 DEF FinishRead, ControlType
  <2>2. Head(todo) \in Resident => blocks[Head(todo)].payload \in Payload
    <3>1. Head(todo) \in Key
      BY <2>1, ElementsTail
    <3> QED BY <1>0, <3>1, InTier DEF StoreType, Resident
  <2>3. PICK s \in {"Ok", "InternalEvicted"}, p \in Payload \cup {NoPayload} :
          Return(s, p)
    BY <1>8, <2>2 DEF FinishRead
  <2>4. ControlType' /\ VictimFound'
    BY <2>3 DEF Return, ControlType, VictimFound, Status
  <2>5. frames = {} /\ UNCHANGED <<store, queues, clock>>
    BY <1>8 DEF FinishRead
  <2> QED BY <2>4, <2>5, ControlInv
<1>9. CASE FinishCall
  <2>1. ControlType' /\ VictimFound' /\ frames = {} /\ UNCHANGED <<store, queues, clock>>
    BY <1>0, <1>9 DEF FinishCall, Return, ControlType, VictimFound, Status
  <2> QED BY <2>1, ControlInv
<1>10. CASE PrefetchSkip
  <2>1. ControlType' /\ VictimFound' /\ frames = {} /\ UNCHANGED <<store, queues, clock>>
    BY <1>0, <1>10, ElementsTail DEF PrefetchSkip, ControlType, VictimFound
  <2> QED BY <2>1, ControlInv
<1>11. CASE PrefetchPlace
  <2>1. /\ op = "Prefetch" /\ frames = {} /\ todo # <<>> /\ todo \in Seq(Key)
        /\ Head(todo) \in Key /\ Tail(todo) \in Seq(Key)
    BY <1>0, <1>11, ElementsTail DEF PrefetchPlace, ControlType
  <2> PICK k \in Key : k = Head(todo)
    BY <2>1
  <2>2. /\ k \in Resident
        /\ PlaceLocked(k, blocks[k].payload, Fastest, blocks[k].tenant)
        /\ Call("Prefetch", Tail(todo), {Fastest})
    BY <1>11 DEF PrefetchPlace, Prefetchable
  <2>3. blocks[k] \in StoredBlock
    BY <1>0, <2>2, InTier DEF StoreType, Resident
  <2>4. blocks[k].payload \in Payload /\ blocks[k].tenant \in Tenant
        /\ blocks[k].tier \in Configured
    BY <2>3 DEF StoredBlock
  <2>5. Fastest \in Configured /\ Fastest \in Tier
    <3>1. Fastest <= blocks[k].tier /\ blocks[k].tier \in Tier
      BY <2>4, FastestType
    <3>2. Fastest # NoTier
      BY <3>1 DEF NoTier, Tier
    <3> QED BY <3>2, FastestType
  <2>6. StoreInv' /\ QueueType' /\ QueueCoverage' /\ CapacityBound'
    <3>1. frames' = {Fastest}
      BY <2>2 DEF Call
    <3> QED BY <2>1, <2>2, <2>4, <2>5, <3>1, PlaceInv
  <2>7. ControlType' /\ VictimFound'
    BY <1>0, <2>1, <2>2, <2>5 DEF Call, ControlType, VictimFound
  <2> QED BY <2>6, <2>7 DEF Inv, TypeOK, StoreInv
<1>12. ASSUME NEW t \in Tier, EvictQuota(t) \/ EvictLru(t) PROVE Inv'
  BY <1>12, EvictIndexInv
<1>13. ASSUME NEW t \in Tier, LeaveEnforce(t) PROVE Inv'
  BY <1>13, LeaveEnforceInv
<1>14. CASE S3SmallStale \/ S3MainStale
  BY <1>14, StaleInv
<1>15. CASE S3SmallEvict \/ S3MainEvict
  BY <1>15, EvictQueueInv
<1>16. CASE S3SmallToMain
  BY <1>16, SmallToMainInv
<1>17. CASE S3MainSecondChance
  BY <1>17, SecondChanceInv
<1>18. CASE UNCHANGED vars
  <2>1. ControlType' /\ VictimFound' /\ frames' = frames /\ UNCHANGED <<store, queues, clock>>
    BY <1>0, <1>18 DEF vars, control, ControlType, VictimFound
  <2> QED BY <2>1, ControlInv
<1>19. CASE Start
  BY <1>1, <1>2, <1>3, <1>4, <1>5, <1>6, <1>7, <1>19, Zenon DEF Start
<1>20. CASE Locked
  BY <1>8, <1>9, <1>10, <1>11, <1>12, <1>13, <1>14, <1>15, <1>16, <1>17, <1>20,
     Zenon DEF Locked
<1> QED BY <1>18, <1>19, <1>20 DEF Next

\* The invariant holds of every behaviour of the store, for every set of
\* keys, tiers, capacities, tenants and weights.
THEOREM Invariance == Spec => []Inv
BY InitInv, NextInv, PTL DEF Spec

\* The state of the store is always well formed: the size_t counters of
\* RemoveLocked and S3SmallToMain never wrap, whatever is called.
THEOREM TypeCorrect == Spec => []TypeOK
<1>1. Inv => TypeOK
  BY DEF Inv
<1> QED BY <1>1, Invariance, PTL

\* Requirement 2.4: a tier that is not being enforced is within its
\* high-water mark; in particular every tier when no call holds mu_.
THEOREM CapacityBounded == Spec => []CapacityBound
<1>1. Inv => CapacityBound
  BY DEF Inv
<1> QED BY <1>1, Invariance, PTL

\* The byte counters are the sums over the block map that TierUsage,
\* PickS3VictimLocked and PickQuotaVictimLocked take them for.
THEOREM BytesAccounted == Spec => []ByteAccounting
<1>1. Inv => ByteAccounting
  BY DEF Inv
<1> QED BY <1>1, Invariance, PTL

\* The victim indexes hold exactly the blocks they stand for.
THEOREM IndexesInSync == Spec => []IndexSync
<1>1. Inv => IndexSync
  BY DEF Inv
<1> QED BY <1>1, Invariance, PTL

\* The error path of EnforceCapacityLocked, over capacity with nothing to
\* evict, is dead code.
THEOREM VictimAlwaysFound == Spec => [](QueueCoverage /\ VictimFound)
<1>1. Inv => QueueCoverage /\ VictimFound
  BY DEF Inv
<1> QED BY <1>1, Invariance, PTL

----------------------------------------------------------------------------
(* Calls return: what a call has to work off *)

\* Moving one block further down leaves fewer demotions.
LEMMA FewerDemotions ==
  ASSUME StoreType, StoreType', NEW v \in Key,
         \A j \in Key \ {v} : blocks'[j] = blocks[j],
         blocks[v].tier \in Tier, blocks'[v].tier > blocks[v].tier
  PROVE  Fewer(Demotions', Demotions)
<1>1. \A k \in Key : blocks[k].tier \in 0..3 /\ blocks'[k].tier \in 0..3
  <2>1. \A x \in StoredBlock \cup {NoBlock} : x.tier \in Configured \cup {NoTier}
    BY DEF StoredBlock, NoBlock
  <2>2. Configured \cup {NoTier} \subseteq 0..3
    BY TierAssumption DEF Tier, NoTier
  <2> QED BY <2>1, <2>2 DEF StoreType
<1>2. \A k \in Key : blocks[k].tier <= blocks'[k].tier
  BY <1>1
<1>3. Demotions' \subseteq Demotions
  <2> SUFFICES ASSUME NEW k \in Key, NEW t \in Tier, blocks'[k].tier <= t
               PROVE  blocks[k].tier <= t
    BY DEF Demotions
  <2> QED BY <1>1, <1>2 DEF Tier
<1>4. <<v, blocks[v].tier>> \in Demotions /\ <<v, blocks[v].tier>> \notin Demotions'
  BY <1>1 DEF Demotions, Tier
<1> QED BY <1>3, <1>4 DEF Fewer

\* A block that stays in its tier with a lower frequency has fewer chances.
LEMMA FewerChances ==
  ASSUME StoreType, StoreType', NEW v \in Key,
         \A j \in Key \ {v} : blocks'[j] = blocks[j],
         blocks'[v].tier = blocks[v].tier, blocks'[v].freq < blocks[v].freq
  PROVE  Demotions' = Demotions /\ Fewer(Chances', Chances)
<1>1. \A k \in Key : blocks[k].freq \in 0..3 /\ blocks'[k].freq \in 0..3
  BY DEF StoreType, StoredBlock, NoBlock
<1>2. \A k \in Key : blocks'[k].freq <= blocks[k].freq /\ blocks'[k].tier = blocks[k].tier
  BY <1>1
<1>3. Demotions' = Demotions
  BY <1>2 DEF Demotions
<1>4. Chances' \subseteq Chances
  <2> SUFFICES ASSUME NEW k \in Key, NEW n \in 1..3, n <= blocks'[k].freq
               PROVE  n <= blocks[k].freq
    BY DEF Chances
  <2> QED BY <1>1, <1>2
<1>5. <<v, blocks[v].freq>> \in Chances /\ <<v, blocks[v].freq>> \notin Chances'
  <2>1. blocks[v].freq \in 1..3 /\ ~(blocks[v].freq <= blocks'[v].freq)
    BY <1>1
  <2> QED BY <2>1 DEF Chances
<1> QED BY <1>3, <1>4, <1>5 DEF Fewer

\* A turn of the eviction loop moves its victim down, or out.
LEMMA EvictAdvances ==
  ASSUME Inv, StoreType', NEW t \in frames, NEW v \in Key, blocks[v].tier = t,
         Evict(v, t)
  PROVE  Advance
<1> DEFINE slower == NextSlowerConfigured(t)
           demoted == [blocks[v] EXCEPT !.tier = slower, !.ts = clock + 1,
                                        !.freq = 0, !.inMain = FALSE]
           fits == slower # NoTier /\ Size[blocks[v].payload] <= CapacityOf(slower)
           b == IF fits THEN demoted ELSE NoBlock
<1>1. StoreType /\ t \in Tier /\ clock \in Nat
  BY DEF Inv, TypeOK, ControlType, QueueType
<1>2. Resettle(v, b) /\ UNCHANGED todo
  BY DEF Evict
<1>3. slower \in Configured \cup {NoTier} /\ slower > t
  BY <1>1, NextSlowerType
<1>4. blocks[v] \in StoredBlock
  BY <1>1, InTier DEF StoreType
<1>5. b.tier > t
  <2>1. CASE fits
    BY <1>1, <1>3, <1>4, <2>1, DemotedType
  <2>2. CASE ~fits
    BY <1>1, <2>2 DEF NoBlock, NoTier, Tier
  <2> QED BY <2>1, <2>2
<1> HIDE DEF b
<1>6. blocks'[v] = b /\ \A j \in Key \ {v} : blocks'[j] = blocks[j]
  BY <1>1, <1>2 DEF Resettle, StoreType
<1>7. Fewer(Demotions', Demotions)
  BY <1>1, <1>5, <1>6, FewerDemotions
<1> QED BY <1>2, <1>7 DEF Advance

\* Dropping the head shortens a queue.
LEMMA TailShorter ==
  ASSUME NEW s \in Seq(Key), s # <<>>
  PROVE  Len(Tail(s)) \in Nat /\ Len(s) \in Nat /\ Len(Tail(s)) < Len(s)
OBVIOUS

\* Each step of a call that does not end it is an advance.
LEMMA LockedAdvances ==
  ASSUME Inv, Inv', Locked, op' # "idle"
  PROVE  Advance
<1>1. /\ StoreType /\ StoreType' /\ todo \in Seq(Key)
      /\ smallFifo \in Seq(Key) /\ mainFifo \in Seq(Key)
      /\ Len(smallFifo) \in Nat /\ Len(mainFifo) \in Nat
  BY DEF Inv, TypeOK, QueueType, ControlType
<1>2. ~FinishRead /\ ~FinishCall
  BY DEF FinishRead, FinishCall, Return
<1>3. CASE PrefetchSkip \/ PrefetchPlace
  <2>1. todo # <<>> /\ todo' = Tail(todo)
    BY <1>3 DEF PrefetchSkip, PrefetchPlace, Call
  <2> QED BY <1>1, <2>1, TailShorter DEF Advance
<1>4. ASSUME NEW t \in Tier, EvictQuota(t) \/ EvictLru(t) PROVE Advance
  <2>1. t \in frames
    BY <1>4 DEF EvictQuota, EvictLru, Evicting, Innermost
  <2>2. PICK v \in QuotaVictims(t) \cup LruVictims(t) : Evict(v, t)
    BY <1>4 DEF EvictQuota, EvictLru
  <2>3. v \in Key /\ blocks[v].tier = t
    BY VictimInTier
  <2> QED BY <1>1, <2>1, <2>2, <2>3, EvictAdvances
<1>5. ASSUME NEW t \in Tier, LeaveEnforce(t) PROVE Advance
  <2>1. t \in frames /\ frames' = frames \ {t} /\ UNCHANGED <<todo, store, queues>>
    BY <1>5 DEF LeaveEnforce, Innermost, Return
  <2>2. /\ Demotions' = Demotions /\ Chances' = Chances
        /\ smallFifo' = smallFifo /\ mainFifo' = mainFifo /\ todo' = todo
    BY <2>1 DEF store, queues, Demotions, Chances
  <2>3. Fewer(frames', frames)
    BY <2>1 DEF Fewer
  <2> QED BY <2>2, <2>3 DEF Advance
<1>6. CASE S3SmallStale \/ S3MainStale
  <2>1. /\ UNCHANGED <<blocks, todo>>
        /\ \/ smallFifo # <<>> /\ smallFifo' = Tail(smallFifo) /\ mainFifo' = mainFifo
           \/ mainFifo # <<>> /\ mainFifo' = Tail(mainFifo) /\ smallFifo' = smallFifo
    BY <1>6 DEF S3SmallStale, S3MainStale, PickingSmall, PickingMain, FromSmall,
                store, control
  <2>2. Demotions' = Demotions /\ Chances' = Chances /\ todo' = todo
    BY <2>1 DEF Demotions, Chances
  <2>3. Len(smallFifo') + Len(mainFifo') < Len(smallFifo) + Len(mainFifo)
    BY <1>1, <2>1, TailShorter
  <2> QED BY <2>2, <2>3 DEF Advance
<1>7. CASE S3SmallEvict \/ S3MainEvict
  <2>1. /\ Fastest \in frames
        /\ S3SmallEvict => smallFifo # <<>>
        /\ S3MainEvict => mainFifo # <<>>
    BY <1>7 DEF S3SmallEvict, S3MainEvict, PickingSmall, PickingMain, Evicting,
                Innermost, FromSmall
  <2>2. PICK v \in Key : blocks[v].tier = Fastest /\ Evict(v, Fastest)
    BY <1>1, <1>7, <2>1, ElementsTail DEF S3SmallEvict, S3MainEvict, InSmall, InMain
  <2> QED BY <1>1, <2>1, <2>2, EvictAdvances
<1>8. CASE S3SmallToMain \/ S3MainSecondChance
  <2>1. PICK v \in Key :
          /\ blocks[v].freq > 0
          /\ \/ blocks' = [blocks EXCEPT ![v] = [@ EXCEPT !.inMain = TRUE, !.freq = 0]]
             \/ blocks' = [blocks EXCEPT ![v] = [blocks[v] EXCEPT !.freq = @ - 1]]
          /\ UNCHANGED todo
    <3>1. CASE S3SmallToMain
      <4>1. smallFifo # <<>> /\ Head(smallFifo) \in Key
        BY <1>1, <3>1, ElementsTail DEF S3SmallToMain, PickingSmall
      <4> QED BY <3>1, <4>1 DEF S3SmallToMain, control
    <3>2. CASE S3MainSecondChance
      <4>1. mainFifo # <<>> /\ Head(mainFifo) \in Key
        BY <1>1, <3>2, ElementsTail DEF S3MainSecondChance, PickingMain, FromSmall
      <4> QED BY <3>2, <4>1 DEF S3MainSecondChance, control
    <3> QED BY <1>8, <3>1, <3>2
  <2>2. blocks[v] \in StoredBlock
    BY <1>1, <2>1 DEF StoreType, NoBlock
  <2>3. \A j \in Key \ {v} : blocks'[j] = blocks[j]
    BY <1>1, <2>1 DEF StoreType
  <2>4. blocks'[v].tier = blocks[v].tier /\ blocks'[v].freq < blocks[v].freq
    <3>1. \/ blocks'[v] = [blocks[v] EXCEPT !.inMain = TRUE, !.freq = 0]
          \/ blocks'[v] = [blocks[v] EXCEPT !.freq = @ - 1]
      BY <1>1, <2>1 DEF StoreType
    <3>2. \A n \in 0..3 : n > 0 => n - 1 < n
      OBVIOUS
    <3>3. blocks[v].freq \in 0..3 /\ blocks[v].freq > 0
      BY <2>1, <2>2 DEF StoredBlock
    <3>4. CASE blocks'[v] = [blocks[v] EXCEPT !.inMain = TRUE, !.freq = 0]
      <4> DEFINE y == [blocks[v] EXCEPT !.inMain = TRUE]
      <4>1. y \in StoredBlock /\ y.tier = blocks[v].tier
        BY <2>2 DEF StoredBlock
      <4>2. blocks'[v] = [y EXCEPT !.freq = 0]
        BY <3>4
      <4> HIDE DEF y
      <4>3. blocks'[v].tier = y.tier /\ blocks'[v].freq = 0
        BY <4>1, <4>2 DEF StoredBlock
      <4> QED BY <3>3, <4>1, <4>3
    <3>5. CASE blocks'[v] = [blocks[v] EXCEPT !.freq = @ - 1]
      <4>1. blocks'[v].tier = blocks[v].tier /\ blocks'[v].freq = blocks[v].freq - 1
        BY <2>2, <3>5 DEF StoredBlock
      <4> QED BY <3>2, <3>3, <4>1
    <3> QED BY <3>1, <3>4, <3>5
  <2>5. Demotions' = Demotions /\ Fewer(Chances', Chances)
    BY <1>1, <2>3, <2>4, FewerChances
  <2> QED BY <2>1, <2>5 DEF Advance
<1> QED BY <1>2, <1>3, <1>4, <1>5, <1>6, <1>7, <1>8, Zenon DEF Locked

\* Every call of the store returns: whatever its key list, the blocks and the
\* queues, each step that does not end the call makes it strictly shorter.
THEOREM CallsReturn == Spec => CallsAdvance
<1>1. Inv /\ Inv' /\ [Next]_vars => [op # "idle" /\ op' # "idle" => Advance]_vars
  <2> SUFFICES ASSUME Inv, Inv', Next, op # "idle", op' # "idle" PROVE Advance
    OBVIOUS
  <2>1. ~Start
    BY DEF Start, Write, WriteRejected, ReadMiss, ReadFast, ReadSlowInPlace,
           ReadPromote, Prefetch, EnforceCapacity
  <2> QED BY <2>1, LockedAdvances DEF Next
<1> QED BY <1>1, Invariance, PTL DEF Spec, CallsAdvance

----------------------------------------------------------------------------
(* What a step does to the block map *)

\* Block k gets content p and the next tick of the clock.
Stamped(k, p) ==
  /\ \A j \in Key \ {k} : blocks'[j] = blocks[j]
  /\ blocks'[k] \in StoredBlock
  /\ blocks'[k].payload = p /\ blocks'[k].ts = clock + 1
  /\ clock' = clock + 1

\* Block k leaves the store.
Removed(k) ==
  /\ \A j \in Key \ {k} : blocks'[j] = blocks[j]
  /\ blocks'[k] = NoBlock
  /\ clock' \in {clock, clock + 1}

\* No block moves, changes its content or its recency.
Settled ==
  /\ \A j \in Key : /\ blocks'[j].tier = blocks[j].tier
                    /\ blocks'[j].payload = blocks[j].payload
                    /\ blocks'[j].ts = blocks[j].ts
  /\ clock' = clock

\* PlaceLocked stamps its block, in the tier it is asked for.
LEMMA PlaceEffect ==
  ASSUME Inv, NEW k \in Key, NEW p \in Payload, NEW t \in Configured,
         NEW n \in Tenant, PlaceLocked(k, p, t, n)
  PROVE  /\ Stamped(k, p) /\ blocks'[k].tier = t
         /\ ghost' = ghost \ {k} /\ UNCHANGED ghostFifo
<1> DEFINE warm == k \in ghost
           seen == blocks[k].count + 1
           count == IF seen = 1 /\ warm THEN 2 ELSE seen
           main == t = Fastest /\ (warm \/ count > 1)
           b == [payload |-> p, tier |-> t, tenant |-> n, count |-> count,
                 ts |-> clock + 1, freq |-> 0, inMain |-> main]
<1>1. /\ Resettle(k, b) /\ clock' = clock + 1
      /\ ghost' = ghost \ {k} /\ UNCHANGED ghostFifo
  BY DEF PlaceLocked
<1>2. StoreInv /\ clock \in Nat
  BY DEF Inv, TypeOK, StoreInv, QueueType
<1>3. blocks[k].count \in Nat
  BY <1>2 DEF StoreInv, StoreType, StoredBlock, NoBlock
<1>4. b \in StoredBlock
  BY <1>2, <1>3 DEF StoredBlock
<1>5. b.tier = t /\ b.payload = p /\ b.ts = clock + 1
  OBVIOUS
<1> HIDE DEF b
<1>6. blocks'[k] = b /\ \A j \in Key \ {k} : blocks'[j] = blocks[j]
  BY <1>1, <1>2, <1>4, ResettleInv
<1> QED BY <1>1, <1>4, <1>5, <1>6 DEF Stamped

\* A hit that moves no block stamps it.
LEMMA TouchEffect ==
  ASSUME Inv, NEW k \in Key, ReadFast(k) \/ ReadSlowInPlace(k)
  PROVE  /\ k \in Resident
         /\ Stamped(k, blocks[k].payload)
         /\ blocks'[k].tier = blocks[k].tier
<1>1. StoreInv /\ clock \in Nat
  BY DEF Inv, TypeOK, StoreInv, QueueType
<1>2. k \in Resident
  BY DEF ReadFast, ReadSlowInPlace
<1>3. blocks[k] \in StoredBlock
  BY <1>1, <1>2, InTier DEF StoreInv, StoreType, Resident
<1> DEFINE y == Touched(blocks[k])
           z == [y EXCEPT !.freq = IF @ < 3 THEN @ + 1 ELSE 3]
<1>4. /\ y \in StoredBlock /\ y.tier = blocks[k].tier
      /\ y.payload = blocks[k].payload /\ y.ts = clock + 1
  BY <1>1, <1>3, TouchedType
<1>5. \/ ReadFast(k) /\ Resettle(k, z) /\ clock' = clock + 1
      \/ Resettle(k, y) /\ clock' = clock + 1
  BY DEF ReadFast, ReadSlowInPlace
<1> HIDE DEF y
<1>6. /\ z \in StoredBlock /\ z.tier = y.tier
      /\ z.payload = y.payload /\ z.ts = y.ts
  BY <1>4 DEF StoredBlock
<1> HIDE DEF z
<1>7. PICK b \in {y, z} : Resettle(k, b) /\ clock' = clock + 1
  BY <1>5
<1>8. /\ b \in StoredBlock /\ b.tier = blocks[k].tier
      /\ b.payload = blocks[k].payload /\ b.ts = clock + 1
  BY <1>4, <1>6
<1>9. blocks'[k] = b /\ \A j \in Key \ {k} : blocks'[j] = blocks[j]
  BY <1>1, <1>7, <1>8, ResettleInv
<1> QED BY <1>2, <1>7, <1>8, <1>9 DEF Stamped

\* A hit that promotes its block stamps it, in the fastest tier.
LEMMA PromoteEffect ==
  ASSUME Inv, NEW k \in Key, ReadPromote(k)
  PROVE  /\ k \in Resident
         /\ Stamped(k, blocks[k].payload)
         /\ blocks'[k].tier = Fastest
         /\ Fastest \in Configured
<1> DEFINE b == [Touched(blocks[k]) EXCEPT !.tier = Fastest, !.freq = 0,
                                           !.inMain = TRUE]
<1>1. StoreInv /\ clock \in Nat
  BY DEF Inv, TypeOK, StoreInv, QueueType
<1>2. k \in Resident /\ Resettle(k, b) /\ clock' = clock + 1
  BY DEF ReadPromote
<1>3. blocks[k] \in StoredBlock
  BY <1>1, <1>2, InTier DEF StoreInv, StoreType, Resident
<1>4. Fastest \in Configured
  <2>1. blocks[k].tier \in Configured
    BY <1>3 DEF StoredBlock
  <2>2. Fastest <= blocks[k].tier /\ blocks[k].tier \in Tier
    BY <2>1, FastestType
  <2>3. Fastest # NoTier
    BY <2>2 DEF NoTier, Tier
  <2> QED BY <2>3, FastestType
<1>5. /\ b \in StoredBlock /\ b.tier = Fastest
      /\ b.payload = blocks[k].payload /\ b.ts = clock + 1
  <2>1. /\ Touched(blocks[k]) \in StoredBlock
        /\ Touched(blocks[k]).payload = blocks[k].payload
        /\ Touched(blocks[k]).ts = clock + 1
    BY <1>1, <1>3, TouchedType
  <2> QED BY <1>4, <2>1, MovedType
<1> HIDE DEF b
<1>6. blocks'[k] = b /\ \A j \in Key \ {k} : blocks'[j] = blocks[j]
  BY <1>1, <1>2, <1>5, ResettleInv
<1> QED BY <1>2, <1>4, <1>5, <1>6 DEF Stamped

\* The next tier takes the victim v of tier t.
Fits(v, t) ==
  /\ NextSlowerConfigured(t) # NoTier
  /\ Size[blocks[v].payload] <= CapacityOf(NextSlowerConfigured(t))

\* A turn of the eviction loop stamps its victim one tier down, or removes it.
LEMMA EvictEffect ==
  ASSUME Inv, NEW t \in frames, NEW v \in Key, blocks[v].tier = t, Evict(v, t)
  PROVE  /\ v \in Resident /\ t \in Configured
         /\ Fits(v, t) => /\ Stamped(v, blocks[v].payload)
                          /\ blocks'[v].tier = NextSlowerConfigured(t)
                          /\ frames' = frames \cup {NextSlowerConfigured(t)}
         /\ ~Fits(v, t) => Removed(v) /\ frames' = frames
         /\ UNCHANGED <<op, todo, ret>>
         /\ used'[t] = used[t] - Size[blocks[v].payload]
         /\ \A u \in Tier : u # NextSlowerConfigured(t) => used'[u] <= used[u]
<1> DEFINE slower == NextSlowerConfigured(t)
           demoted == [blocks[v] EXCEPT !.tier = slower, !.ts = clock + 1,
                                        !.freq = 0, !.inMain = FALSE]
           b == IF Fits(v, t) THEN demoted ELSE NoBlock
<1>1. StoreInv /\ clock \in Nat /\ t \in Tier
  BY DEF Inv, TypeOK, StoreInv, QueueType, ControlType
<1>2. /\ Resettle(v, b)
      /\ clock' = IF slower = NoTier THEN clock ELSE clock + 1
      /\ frames' = IF Fits(v, t) THEN frames \cup {slower} ELSE frames
      /\ UNCHANGED <<op, todo, ret>>
  BY DEF Evict, Fits
<1>3. blocks[v] \in StoredBlock /\ t \in Configured /\ v \in Resident
  <2>1. blocks[v] \in StoredBlock
    BY <1>1, InTier DEF StoreInv, StoreType
  <2> QED BY <1>1, <2>1, InTier DEF StoredBlock, Resident
<1>4. slower \in Configured \cup {NoTier} /\ slower > t
  BY <1>1, NextSlowerType
<1>5. Fits(v, t) => /\ b \in StoredBlock /\ b.tier = slower
                    /\ b.payload = blocks[v].payload /\ b.ts = clock + 1
  BY <1>1, <1>3, <1>4, DemotedType DEF Fits
<1>6. ~Fits(v, t) => b = NoBlock /\ b.tier = NoTier
  BY DEF NoBlock
<1>7. Fits(v, t) => slower # NoTier
  BY DEF Fits
<1> HIDE DEF b, demoted
<1>8. /\ blocks'[v] = b
      /\ \A j \in Key \ {v} : blocks'[j] = blocks[j]
      /\ \A u \in Tier : b.tier # u => used'[u] <= used[u]
  BY <1>1, <1>2, <1>5, <1>6, ResettleInv
<1>9. \A u \in Tier : u # slower => b.tier # u
  BY <1>5, <1>6, InTier DEF NoTier, Tier
<1>10. used'[t] = used[t] - Size[blocks[v].payload]
  <2>1. used'[t] = used[t] - Charge(blocks[v], t) + Charge(b, t)
    BY <1>1, <1>2 DEF Resettle, UsedAfter
  <2>2. Charge(b, t) = 0 /\ Charge(blocks[v], t) = Size[blocks[v].payload]
    <3>1. b.tier # t
      BY <1>1, <1>4, <1>9 DEF Tier
    <3> QED BY <3>1 DEF Charge
  <2>3. used[t] \in Nat /\ Size[blocks[v].payload] \in Nat
    BY <1>1, <1>3, SizeType DEF StoreInv, StoreType, StoredBlock
  <2> QED BY <2>1, <2>2, <2>3
<1>11. Fits(v, t) => Stamped(v, blocks[v].payload)
  BY <1>2, <1>5, <1>7, <1>8 DEF Stamped
<1>12. ~Fits(v, t) => Removed(v)
  BY <1>2, <1>6, <1>8 DEF Removed
<1> QED BY <1>2, <1>3, <1>5, <1>8, <1>9, <1>10, <1>11, <1>12

\* Moving a block between the S3-FIFO queues settles.
LEMMA RequeueEffect ==
  ASSUME Inv, S3SmallToMain \/ S3MainSecondChance
  PROVE  Settled /\ UNCHANGED <<used, ghost, ghostFifo, op, todo, frames, ret>>
<1>1. /\ blocks \in [Key -> StoredBlock \cup {NoBlock}]
      /\ smallFifo \in Seq(Key) /\ mainFifo \in Seq(Key)
  BY DEF Inv, TypeOK, StoreType, QueueType
<1>2. UNCHANGED <<used, clock, ghost, ghostFifo, op, todo, frames, ret>>
  BY DEF S3SmallToMain, S3MainSecondChance, control
<1>3. CASE S3SmallToMain
  <2>1. smallFifo # <<>> /\ Head(smallFifo) \in Key
    BY <1>1, <1>3, ElementsTail DEF S3SmallToMain, PickingSmall
  <2> PICK k \in Key : k = Head(smallFifo)
    BY <2>1
  <2> DEFINE b == [blocks[k] EXCEPT !.inMain = TRUE, !.freq = 0]
  <2>2. InSmall(k) /\ blocks' = [blocks EXCEPT ![k] = b]
    BY <1>1, <1>3 DEF S3SmallToMain
  <2>3. blocks[k] \in StoredBlock
    BY <1>1, <2>2, InTier DEF InSmall, Resident
  <2>4. b.tier = blocks[k].tier /\ b.payload = blocks[k].payload /\ b.ts = blocks[k].ts
    <3>1. 0 \in 0..3 /\ TRUE \in BOOLEAN
      OBVIOUS
    <3> QED BY <2>3, <3>1, RequeuedType, Zenon
  <2> HIDE DEF b
  <2> QED BY <1>1, <1>2, <2>2, <2>4 DEF Settled
<1>4. CASE S3MainSecondChance
  <2>1. mainFifo # <<>> /\ Head(mainFifo) \in Key
    BY <1>1, <1>4, ElementsTail DEF S3MainSecondChance, PickingMain, FromSmall
  <2> PICK k \in Key : k = Head(mainFifo)
    BY <2>1
  <2> DEFINE b == [blocks[k] EXCEPT !.freq = @ - 1]
  <2>2. InMain(k) /\ blocks' = [blocks EXCEPT ![k] = b]
    BY <1>1, <1>4 DEF S3MainSecondChance
  <2>3. blocks[k] \in StoredBlock
    BY <1>1, <2>2, InTier DEF InMain, Resident
  <2>4. b.tier = blocks[k].tier /\ b.payload = blocks[k].payload /\ b.ts = blocks[k].ts
    BY <2>3 DEF StoredBlock
  <2> HIDE DEF b
  <2> QED BY <1>1, <1>2, <2>2, <2>4 DEF Settled
<1> QED BY <1>2, <1>3, <1>4

\* PrefetchPlace is PlaceLocked, with the content and the tenant the block has.
LEMMA PrefetchEffect ==
  ASSUME Inv, PrefetchPlace
  PROVE  /\ op = "Prefetch" /\ frames = {} /\ todo # <<>>
         /\ Head(todo) \in Resident /\ Fastest \in Configured
         /\ Stamped(Head(todo), blocks[Head(todo)].payload)
         /\ blocks'[Head(todo)].tier = Fastest
         /\ ghost' = ghost \ {Head(todo)} /\ UNCHANGED ghostFifo
         /\ op' = "Prefetch" /\ todo' = Tail(todo) /\ frames' = {Fastest}
         /\ UNCHANGED ret
<1>1. StoreType /\ todo \in Seq(Key)
  BY DEF Inv, TypeOK, ControlType
<1>2. /\ op = "Prefetch" /\ frames = {} /\ todo # <<>>
      /\ Head(todo) \in Resident
      /\ PlaceLocked(Head(todo), blocks[Head(todo)].payload, Fastest,
                     blocks[Head(todo)].tenant)
      /\ op' = "Prefetch" /\ todo' = Tail(todo) /\ frames' = {Fastest}
      /\ UNCHANGED ret
  BY DEF PrefetchPlace, Prefetchable, Call
<1>3. PICK k \in Key : k = Head(todo)
  BY <1>1, <1>2, ElementsTail
<1>4. /\ k \in Resident
      /\ PlaceLocked(k, blocks[k].payload, Fastest, blocks[k].tenant)
  BY <1>2, <1>3
<1>5. blocks[k] \in StoredBlock
  BY <1>1, <1>4, InTier DEF StoreType, Resident
<1>6. /\ blocks[k].payload \in Payload /\ blocks[k].tenant \in Tenant
      /\ blocks[k].tier \in Configured
  BY <1>5 DEF StoredBlock
<1>7. Fastest \in Configured
  <2>1. Fastest <= blocks[k].tier /\ blocks[k].tier \in Tier
    BY <1>6, FastestType
  <2>2. Fastest # NoTier
    BY <2>1 DEF NoTier, Tier
  <2> QED BY <2>2, FastestType
<1>8. /\ Stamped(k, blocks[k].payload) /\ blocks'[k].tier = Fastest
      /\ ghost' = ghost \ {k} /\ UNCHANGED ghostFifo
  BY <1>4, <1>6, <1>7, PlaceEffect
<1> QED BY <1>2, <1>3, <1>7, <1>8

\* The victim the code picks: the quota's, and when there is none, that of
\* S3-FIFO in the fastest tier and of LRU in a slower one.
Picked(v, t) ==
  \/ v \in QuotaVictims(t)
  \/ QuotaVictims(t) = {} /\ (t = Fastest \/ v \in LruVictims(t))

\* The steps that evict, whichever queue or index they take the victim from.
LEMMA EvictSteps ==
  ASSUME Inv, \/ \E t \in Tier : EvictQuota(t) \/ EvictLru(t)
              \/ S3SmallEvict \/ S3MainEvict
  PROVE  \E t \in frames, v \in Key :
           /\ Evicting(t) /\ blocks[v].tier = t /\ Evict(v, t) /\ Picked(v, t)
<1>1. smallFifo \in Seq(Key) /\ mainFifo \in Seq(Key)
  BY DEF Inv, TypeOK, QueueType
<1>2. ASSUME NEW t \in Tier, EvictQuota(t) \/ EvictLru(t)
      PROVE  \E v \in Key :
               /\ Evicting(t) /\ t \in frames /\ blocks[v].tier = t /\ Evict(v, t)
               /\ Picked(v, t)
  <2>1. Evicting(t) /\ t \in frames
    BY <1>2 DEF EvictQuota, EvictLru, Evicting, Innermost
  <2>2. PICK v \in QuotaVictims(t) \cup LruVictims(t) : Evict(v, t) /\ Picked(v, t)
    BY <1>2 DEF EvictQuota, EvictLru, Picked
  <2>3. v \in Key /\ blocks[v].tier = t
    BY VictimInTier
  <2> QED BY <2>1, <2>2, <2>3
<1>3. CASE S3SmallEvict \/ S3MainEvict
  <2>1. /\ Evicting(Fastest) /\ Fastest \in frames /\ QuotaVictims(Fastest) = {}
        /\ S3SmallEvict => smallFifo # <<>>
        /\ S3MainEvict => mainFifo # <<>>
    BY <1>3 DEF S3SmallEvict, S3MainEvict, PickingSmall, PickingMain, Evicting,
                Innermost, FromSmall
  <2>2. PICK v \in Key : blocks[v].tier = Fastest /\ Evict(v, Fastest)
    BY <1>1, <1>3, <2>1, ElementsTail DEF S3SmallEvict, S3MainEvict, InSmall, InMain
  <2> QED BY <2>1, <2>2 DEF Picked
<1> QED BY <1>2, <1>3

\* Every other step under the lock, and every call that answers at once
\* without a hit, settles and leaves the bytes alone.
Quiet ==
  \/ \E p \in Payload, t \in Tier : WriteRejected(p, t)
  \/ \E k \in Key : ReadMiss(k)
  \/ \E keys \in KeyLists : Prefetch(keys)
  \/ \E t \in Tier : EnforceCapacity(t) \/ LeaveEnforce(t)
  \/ FinishRead \/ FinishCall \/ PrefetchSkip
  \/ S3SmallStale \/ S3MainStale
  \/ S3SmallToMain \/ S3MainSecondChance
  \/ UNCHANGED vars

LEMMA QuietEffect ==
  ASSUME Inv, Quiet
  PROVE  Settled /\ UNCHANGED <<used, ghost, ghostFifo>>
<1>1. CASE S3SmallToMain \/ S3MainSecondChance
  BY <1>1, RequeueEffect
<1>2. CASE ~(S3SmallToMain \/ S3MainSecondChance)
  <2>1. UNCHANGED <<blocks, used, clock, ghost, ghostFifo>>
    BY <1>2 DEF Quiet, WriteRejected, ReadMiss, Prefetch, EnforceCapacity,
       LeaveEnforce, FinishRead, FinishCall, PrefetchSkip, S3SmallStale,
       S3MainStale, vars, store, queues
  <2> QED BY <2>1 DEF Settled
<1> QED BY <1>1, <1>2

\* The five ways in which a step can touch the block map.
LEMMA StepKinds ==
  ASSUME Inv, [Next]_vars
  PROVE  \/ Quiet
         \/ \E k \in Key, p \in Payload, t \in Tier, n \in Tenant : Write(k, p, t, n)
         \/ \E k \in Key : ReadFast(k) \/ ReadSlowInPlace(k)
         \/ \E k \in Key : ReadPromote(k)
         \/ PrefetchPlace
         \/ \E t \in frames, v \in Key :
              /\ Evicting(t) /\ blocks[v].tier = t /\ Evict(v, t) /\ Picked(v, t)
<1> DEFINE A == \E t \in Tier : EvictQuota(t) \/ EvictLru(t)
<1>1. CASE A \/ S3SmallEvict \/ S3MainEvict
  BY <1>1, EvictSteps
<1>2. CASE ~(A \/ S3SmallEvict \/ S3MainEvict)
  BY <1>2, Zenon DEF Next, Start, Locked, Quiet
<1> QED BY <1>1, <1>2

\* A write is accepted for a configured tier.
LEMMA WriteEffect ==
  ASSUME Inv, NEW k \in Key, NEW p \in Payload, NEW target \in Tier,
         NEW n \in Tenant, Write(k, p, target, n)
  PROVE  LET t == ResolveConfiguredTier(target)
         IN  /\ t \in Configured /\ Size[p] <= EvictionThresholdOf(t)
             /\ Stamped(k, p) /\ blocks'[k].tier = t
             /\ ghost' = ghost \ {k} /\ UNCHANGED ghostFifo
             /\ op = "idle" /\ op' = "Write" /\ todo' = <<>> /\ frames' = {t}
             /\ UNCHANGED ret
<1> DEFINE t == ResolveConfiguredTier(target)
<1>1. /\ t # NoTier /\ Size[p] <= EvictionThresholdOf(t)
      /\ PlaceLocked(k, p, t, n)
      /\ op = "idle" /\ op' = "Write" /\ todo' = <<>> /\ frames' = {t}
      /\ UNCHANGED ret
  BY DEF Write, Call
<1>2. t \in Configured
  BY <1>1, ResolveType
<1> HIDE DEF t
<1>3. /\ Stamped(k, p) /\ blocks'[k].tier = t
      /\ ghost' = ghost \ {k} /\ UNCHANGED ghostFifo
  BY <1>1, <1>2, PlaceEffect
<1> QED BY <1>1, <1>2, <1>3 DEF t

\* Whatever the step, it stamps one block, removes one, or settles.
LEMMA StepEffect ==
  ASSUME Inv, [Next]_vars
  PROVE  \/ Settled
         \/ \E k \in Key : Removed(k) \/ \E p \in Payload : Stamped(k, p)
<1>0. StoreType /\ todo \in Seq(Key)
  BY DEF Inv, TypeOK, ControlType
<1>1. \A k \in Resident : k \in Key /\ blocks[k].payload \in Payload
  BY <1>0, InTier DEF StoreType, Resident
<1>2. CASE Quiet
  BY <1>2, QuietEffect
<1>3. ASSUME NEW k \in Key, NEW p \in Payload, NEW t \in Tier, NEW n \in Tenant,
             Write(k, p, t, n)
      PROVE  Stamped(k, p)
  BY <1>3, WriteEffect
<1>4. ASSUME NEW k \in Key, ReadFast(k) \/ ReadSlowInPlace(k) \/ ReadPromote(k)
      PROVE  k \in Resident /\ Stamped(k, blocks[k].payload)
  BY <1>4, TouchEffect, PromoteEffect
<1>5. CASE PrefetchPlace
  BY <1>1, <1>5, PrefetchEffect
<1>6. ASSUME NEW t \in frames, NEW v \in Key, blocks[v].tier = t, Evict(v, t)
      PROVE  v \in Resident /\ (Removed(v) \/ Stamped(v, blocks[v].payload))
  BY <1>6, EvictEffect
<1> QED BY <1>1, <1>2, <1>3, <1>4, <1>5, <1>6, StepKinds

----------------------------------------------------------------------------
(* The books of the replacement policy *)

\* A step ticks the clock for at most one block, and stamps no other with it.
LEMMA RecencyStep ==
  ASSUME Inv, RecencyUnique, [Next]_vars
  PROVE  RecencyUnique'
<1>1. /\ clock \in Nat
      /\ \A k \in Resident : k \in Key /\ blocks[k].ts \in Nat
  BY InTier DEF Inv, TypeOK, QueueType, StoreType, Resident, StoredBlock
<1>2. CASE Settled
  <2>1. Resident' = Resident
    BY <1>2 DEF Settled, Resident
  <2> QED BY <1>1, <1>2, <2>1 DEF Settled, RecencyUnique
<1>3. ASSUME NEW k \in Key, Removed(k) PROVE RecencyUnique'
  <2>1. /\ Resident' \subseteq Resident
        /\ \A j \in Resident' : blocks'[j] = blocks[j]
    BY <1>3 DEF Removed, Resident, NoBlock
  <2>2. clock' \in Nat /\ clock <= clock'
    BY <1>1, <1>3 DEF Removed
  <2> QED BY <1>1, <2>1, <2>2 DEF RecencyUnique
<1>4. ASSUME NEW k \in Key, NEW p \in Payload, Stamped(k, p) PROVE RecencyUnique'
  <2>1. /\ Resident' \subseteq Resident \cup {k}
        /\ \A j \in Resident' \ {k} : j \in Resident /\ blocks'[j] = blocks[j]
        /\ blocks'[k].ts = clock + 1 /\ clock' = clock + 1
    BY <1>4 DEF Stamped, Resident
  <2>2. \A j \in Resident' \ {k} : blocks'[j].ts \in Nat /\ blocks'[j].ts <= clock
    BY <1>1, <2>1 DEF RecencyUnique
  <2>3. \A j \in Resident' : blocks'[j].ts <= clock'
    BY <1>1, <2>1, <2>2
  <2>4. ASSUME NEW i \in Resident', NEW j \in Resident', blocks'[i].ts = blocks'[j].ts
        PROVE  i = j
    <3>1. CASE i # k /\ j # k
      BY <2>1, <2>4, <3>1 DEF RecencyUnique
    <3>2. CASE i = k \/ j = k
      BY <1>1, <2>1, <2>2, <2>4, <3>2
    <3> QED BY <3>1, <3>2
  <2> QED BY <2>3, <2>4 DEF RecencyUnique
<1> QED BY <1>2, <1>3, <1>4, StepEffect

\* GhostInsertLocked drops the front of a queue that has become too long, and
\* with it at most that key from the set.
LEMMA GhostInsertBounded ==
  ASSUME QueueType, GhostBounded, NEW k \in Key, GhostInsertLocked(k)
  PROVE  GhostBounded'
<1> DEFINE longer == Append(ghostFifo, k)
           full == Len(longer) > GhostCapacity
<1>1. /\ ghostFifo \in Seq(Key) /\ ghost \subseteq Elements(ghostFifo)
      /\ Len(ghostFifo) <= GhostCapacity /\ GhostCapacity \in Nat
  BY BoundAssumption DEF QueueType, GhostBounded
<1>2. /\ longer \in Seq(Key) /\ longer # <<>> /\ Len(longer) = Len(ghostFifo) + 1
      /\ Elements(longer) = Elements(ghostFifo) \cup {k}
      /\ Len(ghostFifo) \in Nat
  BY <1>1, ElementsAppend
<1>3. /\ Elements(longer) \subseteq Elements(Tail(longer)) \cup {Head(longer)}
      /\ Len(Tail(longer)) = Len(ghostFifo)
  <2> HIDE DEF longer
  <2>1. Len(Tail(longer)) = Len(longer) - 1
    BY <1>2
  <2> QED BY <1>2, <2>1, ElementsTail
<1>4. \/ UNCHANGED <<ghost, ghostFifo>>
      \/ /\ ghost' = (ghost \cup {k}) \ (IF full THEN {Head(longer)} ELSE {})
         /\ ghostFifo' = IF full THEN Tail(longer) ELSE longer
  BY DEF GhostInsertLocked
<1> HIDE DEF longer
<1>5. ghost' \subseteq Elements(ghostFifo') /\ Len(ghostFifo') <= GhostCapacity
  <2>1. CASE UNCHANGED <<ghost, ghostFifo>>
    BY <1>1, <2>1
  <2>2. CASE ghost' = (ghost \cup {k}) \ {Head(longer)} /\ ghostFifo' = Tail(longer)
    BY <1>1, <1>2, <1>3, <2>2
  <2>3. CASE ~full /\ ghost' = ghost \cup {k} /\ ghostFifo' = longer
    BY <1>1, <1>2, <2>3
  <2> QED BY <1>4, <2>1, <2>2, <2>3
<1>6. Elements(ghostFifo)' = Elements(ghostFifo')
  BY DEF Elements
<1> QED BY <1>5, <1>6 DEF GhostBounded

\* Every other step leaves the queue alone and adds nothing to the set.
LEMMA GhostStep ==
  ASSUME Inv, GhostBounded, [Next]_vars
  PROVE  GhostBounded'
<1>0. QueueType
  BY DEF Inv, TypeOK
<1>1. CASE ghost' \subseteq ghost /\ UNCHANGED ghostFifo
  <2>1. Elements(ghostFifo)' = Elements(ghostFifo)
    BY <1>1 DEF Elements
  <2> QED BY <1>1, <2>1 DEF GhostBounded
<1>2. CASE S3SmallEvict
  <2>1. Head(smallFifo) \in Key
    BY <1>0, <1>2, ElementsTail DEF S3SmallEvict, PickingSmall, QueueType
  <2> QED BY <1>0, <1>2, <2>1, GhostInsertBounded DEF S3SmallEvict
<1>3. CASE Quiet
  BY <1>1, <1>3, QuietEffect
<1>4. ASSUME NEW k \in Key, NEW p \in Payload, NEW t \in Tier, NEW n \in Tenant,
             Write(k, p, t, n)
      PROVE  GhostBounded'
  BY <1>1, <1>4, WriteEffect
<1>5. ASSUME NEW k \in Key, ReadFast(k) \/ ReadSlowInPlace(k) \/ ReadPromote(k)
      PROVE  GhostBounded'
  <2>1. UNCHANGED <<ghost, ghostFifo>>
    BY <1>5 DEF ReadFast, ReadSlowInPlace, ReadPromote, queues
  <2> QED BY <1>1, <2>1
<1>6. CASE PrefetchPlace
  BY <1>1, <1>6, PrefetchEffect
<1>7. ASSUME NEW t \in Tier, EvictQuota(t) \/ EvictLru(t) PROVE GhostBounded'
  <2>1. UNCHANGED <<ghost, ghostFifo>>
    BY <1>7 DEF EvictQuota, EvictLru, queues
  <2> QED BY <1>1, <2>1
<1>8. CASE S3MainEvict
  BY <1>1, <1>8 DEF S3MainEvict
<1> QED BY <1>2, <1>3, <1>4, <1>5, <1>6, <1>7, <1>8, Zenon
        DEF Next, Start, Locked, Quiet

\* The replacement policy always finds what it relies on: every block of the
\* fastest tier is queued, recency orders the blocks totally, and the ghost
\* set stays within kGhostCapacity.
THEOREM PolicySound == Spec => []QueuesSound
<1>1. Init => RecencyUnique /\ GhostBounded
  <2> SUFFICES ASSUME Init PROVE RecencyUnique /\ GhostBounded
    OBVIOUS
  <2>1. Resident = {}
    BY DEF Init, Resident, NoBlock, NoTier
  <2>2. ghost = {} /\ Len(ghostFifo) = 0
    BY DEF Init
  <2> QED BY <2>1, <2>2, BoundAssumption DEF RecencyUnique, GhostBounded
<1>2. Inv /\ RecencyUnique /\ GhostBounded /\ [Next]_vars
        => (RecencyUnique /\ GhostBounded)'
  BY RecencyStep, GhostStep
<1>3. Inv /\ RecencyUnique /\ GhostBounded => QueuesSound
  BY DEF Inv, QueuesSound
<1> QED BY <1>1, <1>2, <1>3, Invariance, PTL DEF Spec

----------------------------------------------------------------------------
(* The store is a cache *)

\* A transaction is made of steps of the store.
LEMMA CallIsStep == [CallNext]_callVars => [Next]_vars
<1>1. CallStart => Start
  BY Zenon DEF CallStart, Start
<1>2. CallStep => Next
  BY Zenon DEF CallStep, Next, Start
<1>3. UNCHANGED callVars => UNCHANGED vars
  BY DEF callVars
<1> QED BY <1>1, <1>2, <1>3 DEF CallNext, Next

\* The kinds of steps, with what the history variables make of them.
LEMMA CallKinds ==
  ASSUME Inv, CallNext
  PROVE  \/ \E k \in Key, p \in Payload, t \in Tier, n \in Tenant :
              /\ Write(k, p, t, n)
              /\ written' = [written EXCEPT ![k] = p]
              /\ placed' = {<<k, ResolveConfiguredTier(t)>>}
         \/ /\ UNCHANGED written
            /\ \/ /\ Quiet
                  /\ placed' = NowPlaced \/ (op = "idle" /\ placed' = placed)
               \/ \E k \in Key : /\ ReadFast(k) \/ ReadSlowInPlace(k)
                                 /\ placed' = NowPlaced
               \/ \E k \in Key : ReadPromote(k) /\ placed' = {<<k, Fastest>>}
               \/ PrefetchPlace /\ placed' = NowPlaced
               \/ /\ placed' = NowPlaced
                  /\ \E t \in frames, v \in Key :
                       /\ Evicting(t) /\ blocks[v].tier = t /\ Evict(v, t)
                       /\ Picked(v, t)
<1>1. CASE CallStart
  <2>1. ASSUME NEW keys \in KeyLists, Prefetch(keys), UNCHANGED history
        PROVE  Quiet /\ op = "idle" /\ placed' = placed /\ UNCHANGED written
    BY <2>1 DEF Quiet, Prefetch, history
  <2>2. ASSUME NEW t \in Tier, EnforceCapacity(t), UNCHANGED history
        PROVE  Quiet /\ op = "idle" /\ placed' = placed /\ UNCHANGED written
    BY <2>2 DEF Quiet, EnforceCapacity, history
  <2> QED BY <1>1, <2>1, <2>2 DEF CallStart
<1>2. CASE CallStep
  <2>1. placed' = NowPlaced /\ UNCHANGED written
    BY <1>2 DEF CallStep
  <2>2. CASE \/ \E t \in Tier : EvictQuota(t) \/ EvictLru(t)
             \/ S3SmallEvict \/ S3MainEvict
    BY <2>1, <2>2, EvictSteps
  <2>3. CASE \E k \in Key : ReadFast(k) \/ ReadSlowInPlace(k)
    BY <2>1, <2>3
  <2>4. CASE ~ \E t \in Tier : EvictQuota(t) \/ EvictLru(t)
    <3>1. Quiet \/ PrefetchPlace \/ S3SmallEvict \/ S3MainEvict
            \/ \E k \in Key : ReadFast(k) \/ ReadSlowInPlace(k)
      BY <1>2, <2>4, Zenon DEF CallStep, Locked, Quiet
    <3>2. CASE Quiet
      BY <2>1, <3>2
    <3>3. CASE PrefetchPlace
      BY <2>1, <3>3
    <3> QED BY <2>2, <2>3, <3>1, <3>2, <3>3
  <2> QED BY <2>2, <2>4
<1> QED BY <1>1, <1>2 DEF CallNext

\* The block map and the last accepted writes agree: needed because the cache
\* answers a hit with what was written, the store with what it stored.
Stored ==
  /\ written \in [Key -> Payload \cup {NoPayload}]
  /\ \A k \in Resident : blocks[k].payload = written[k]

\* The effects, seen from outside.
LEMMA ResidentAfter ==
  ASSUME StoreType, NEW k \in Key
  PROVE  /\ Removed(k) => Resident' = Resident \ {k}
         /\ \A p : Stamped(k, p) => Resident' = Resident \cup {k}
<1>1. Removed(k) => Resident' = Resident \ {k}
  BY DEF Removed, Resident, NoBlock
<1>2. ASSUME NEW p, Stamped(k, p) PROVE Resident' = Resident \cup {k}
  <2>1. blocks'[k].tier # NoTier
    BY <1>2, InTier DEF Stamped
  <2> QED BY <1>2, <2>1 DEF Stamped, Resident
<1> QED BY <1>1, <1>2

LEMMA StoredStep ==
  ASSUME Inv, Stored, [CallNext]_callVars
  PROVE  Stored'
<1>0. StoreType
  BY DEF Inv, TypeOK
<1>1. CASE Settled /\ UNCHANGED written
  BY <1>1 DEF Settled, Stored, Resident
<1>2. ASSUME NEW k \in Key, Removed(k), UNCHANGED written PROVE Stored'
  BY <1>0, <1>2, ResidentAfter DEF Removed, Stored, Resident
<1>3. ASSUME NEW k \in Resident, Stamped(k, blocks[k].payload), UNCHANGED written
      PROVE  Stored'
  <2>1. k \in Key
    BY DEF Resident
  <2>2. Resident' = Resident
    BY <1>0, <1>3, <2>1, ResidentAfter
  <2> QED BY <1>3, <2>1, <2>2 DEF Stamped, Stored, Resident
<1>4. ASSUME NEW k \in Key, NEW p \in Payload, NEW t \in Tier, NEW n \in Tenant,
             Write(k, p, t, n), written' = [written EXCEPT ![k] = p]
      PROVE  Stored'
  <2>1. Stamped(k, p)
    BY <1>4, WriteEffect
  <2>2. Resident' = Resident \cup {k}
    BY <1>0, <2>1, ResidentAfter
  <2> QED BY <1>4, <2>1, <2>2 DEF Stamped, Stored, Resident
<1>5. CASE UNCHANGED callVars
  BY <1>1, <1>5 DEF callVars, history, vars, store, Settled
<1>6. CASE CallNext
  <2>1. CASE Quiet /\ UNCHANGED written
    BY <1>1, <2>1, QuietEffect
  <2>2. ASSUME NEW k \in Key, ReadFast(k) \/ ReadSlowInPlace(k) \/ ReadPromote(k),
               UNCHANGED written
        PROVE  Stored'
    BY <1>3, <2>2, TouchEffect, PromoteEffect
  <2>3. CASE PrefetchPlace /\ UNCHANGED written
    BY <1>3, <2>3, PrefetchEffect
  <2>4. ASSUME NEW t \in frames, NEW v \in Key, blocks[v].tier = t, Evict(v, t),
               UNCHANGED written
        PROVE  Stored'
    BY <1>2, <1>3, <2>4, EvictEffect
  <2> QED BY <1>4, <1>6, <2>1, <2>2, <2>3, <2>4, CallKinds
<1> QED BY <1>5, <1>6

\* The only answers that carry a block are hits.
LEMMA QuietReply ==
  ASSUME Inv, Quiet
  PROVE  \/ ret' = ret
         \/ ret'.payload = NoPayload
         \/ /\ FinishRead /\ Head(todo) \in Resident
            /\ ret' = [status |-> "Ok", payload |-> blocks[Head(todo)].payload]
<1>1. CASE FinishRead
  BY <1>1 DEF FinishRead, Return
<1>2. CASE ~FinishRead
  BY <1>2 DEF Quiet, WriteRejected, ReadMiss, Prefetch, Call, EnforceCapacity,
     LeaveEnforce, FinishCall, PrefetchSkip, S3SmallStale, S3MainStale,
     S3SmallToMain, S3MainSecondChance, Return, vars, control
<1> QED BY <1>1, <1>2

\* Each step of the store is a step of the cache, or none.
LEMMA CacheStep ==
  ASSUME Inv, Stored, [CallNext]_callVars
  PROVE  [Cache!Next]_<<written, Resident, ret>>
<1>0. StoreType
  BY DEF Inv, TypeOK
<1>1. ASSUME NEW k \in Key, NEW p \in Payload, NEW t \in Tier, NEW n \in Tenant,
             Write(k, p, t, n), written' = [written EXCEPT ![k] = p]
      PROVE  Cache!Put(k, p)
  <2>1. Stamped(k, p) /\ UNCHANGED ret
    BY <1>1, WriteEffect
  <2>2. Resident' = Resident \cup {k}
    BY <1>0, <2>1, ResidentAfter
  <2> QED BY <1>1, <2>1, <2>2 DEF Cache!Put
<1>2. ASSUME Quiet, UNCHANGED written
      PROVE  \/ UNCHANGED <<written, Resident, ret>>
             \/ Cache!Empty
             \/ \E k \in Key : Cache!Hit(k)
  <2>1. Resident' = Resident
    BY <1>2, QuietEffect DEF Settled, Resident
  <2>2. CASE ret' = ret
    BY <1>2, <2>1, <2>2
  <2>3. CASE ret'.payload = NoPayload
    BY <1>2, <2>1, <2>3 DEF Cache!Empty
  <2>4. CASE /\ FinishRead /\ Head(todo) \in Resident
             /\ ret' = [status |-> "Ok", payload |-> blocks[Head(todo)].payload]
    <3>1. PICK k \in Resident : k = Head(todo)
      BY <2>4
    <3>2. k \in Key /\ ret' = [status |-> "Ok", payload |-> written[k]]
      BY <2>4, <3>1 DEF Stored, Resident
    <3>3. Cache!Hit(k)
      BY <1>2, <2>1, <3>1, <3>2 DEF Cache!Hit
    <3> QED BY <3>2, <3>3
  <2> QED BY <1>2, <2>2, <2>3, <2>4, QuietReply
<1>3. ASSUME NEW k \in Key, ReadFast(k) \/ ReadSlowInPlace(k), UNCHANGED written
      PROVE  Cache!Hit(k)
  <2>1. k \in Resident /\ Resident' = Resident
    <3>1. k \in Resident /\ Stamped(k, blocks[k].payload)
      BY <1>3, TouchEffect
    <3> QED BY <1>0, <3>1, ResidentAfter
  <2>2. ret' = [status |-> "Ok", payload |-> blocks[k].payload]
    BY <1>3 DEF ReadFast, ReadSlowInPlace, Return
  <2> QED BY <1>3, <2>1, <2>2 DEF Cache!Hit, Stored
<1>4. ASSUME NEW k \in Key, ReadPromote(k), UNCHANGED written
      PROVE  UNCHANGED <<written, Resident, ret>>
  <2>1. k \in Resident /\ Stamped(k, blocks[k].payload)
    BY <1>4, PromoteEffect
  <2>2. UNCHANGED ret
    BY <1>4 DEF ReadPromote, Call
  <2> QED BY <1>0, <1>4, <2>1, <2>2, ResidentAfter
<1>5. ASSUME PrefetchPlace, UNCHANGED written
      PROVE  UNCHANGED <<written, Resident, ret>>
  <2>1. PICK k \in Resident : Stamped(k, blocks[k].payload) /\ UNCHANGED ret
    BY <1>5, PrefetchEffect
  <2> QED BY <1>0, <1>5, <2>1, ResidentAfter DEF Resident
<1>6. ASSUME NEW t \in frames, NEW v \in Key, blocks[v].tier = t, Evict(v, t),
             UNCHANGED written
      PROVE  UNCHANGED <<written, Resident, ret>> \/ Cache!Drop(v)
  <2>1. /\ v \in Resident /\ UNCHANGED ret
        /\ Removed(v) \/ Stamped(v, blocks[v].payload)
    BY <1>6, EvictEffect
  <2>2. Resident' = Resident \/ Resident' = Resident \ {v}
    BY <1>0, <2>1, ResidentAfter
  <2> QED BY <1>6, <2>1, <2>2 DEF Cache!Drop
<1>7. CASE UNCHANGED callVars
  BY <1>7 DEF callVars, history, vars, store, control, Resident
<1>8. CASE CallNext
  BY <1>1, <1>2, <1>3, <1>4, <1>5, <1>6, <1>8, CallKinds DEF Cache!Next
<1> QED BY <1>7, <1>8

\* The store implements a cache: a block that is there has the content of the
\* last accepted write, a read returns that content or a miss, and nothing
\* but a write changes what a hit will return.
THEOREM StoreIsCache == CallSpec => CacheSpec
<1>1. CallInit => Init /\ Stored /\ Cache!Init
  <2> SUFFICES ASSUME CallInit PROVE Init /\ Stored /\ Cache!Init
    OBVIOUS
  <2>1. Init /\ written = [k \in Key |-> NoPayload]
    BY DEF CallInit
  <2>2. Resident = {} /\ ret = [status |-> "Ok", payload |-> NoPayload]
    BY <2>1 DEF Init, Resident, NoBlock, NoTier
  <2> QED BY <2>1, <2>2 DEF Stored, Cache!Init
<1>2. [CallNext]_callVars => [Next]_vars
  BY CallIsStep
<1>3. Inv /\ Stored /\ [CallNext]_callVars => Stored'
  BY StoredStep
<1>4. Inv /\ Stored /\ [CallNext]_callVars => [Cache!Next]_<<written, Resident, ret>>
  BY CacheStep
<1> QED BY <1>1, <1>2, <1>3, <1>4, InitInv, NextInv, PTL
        DEF CallSpec, CacheSpec, Cache!Spec

----------------------------------------------------------------------------
(* Calls keep the block they place *)

\* No block of its tier is more recent than k.
Newest(k) ==
  \A j \in Key : blocks[j].tier = blocks[k].tier => blocks[j].ts <= blocks[k].ts

\* Where the block of k, placed in tier t, can be while the enforcement of
\* its call runs.  In the fastest tier its own bytes are all that can be too
\* much; once it has been demoted, that tier is within its mark, so no other
\* block follows, and LRU takes the newest block only when it is alone.
InFastest(k, t) ==
  /\ t = Fastest /\ blocks[k].tier = t
  /\ used[t] <= EvictionThresholdOf(t) + Size[blocks[k].payload]

DemotedOnce(k, t) ==
  /\ t = Fastest /\ blocks[k].tier = NextSlowerConfigured(t)
  /\ used[t] <= EvictionThresholdOf(t)
  /\ Newest(k)

InSlower(k, t) ==
  /\ t # Fastest /\ blocks[k].tier = t
  /\ Size[blocks[k].payload] <= EvictionThresholdOf(t)
  /\ Newest(k)
  /\ \A u \in frames : t <= u

Held(k, t) == InFastest(k, t) \/ DemotedOnce(k, t) \/ InSlower(k, t)

\* The running call knows its block, and the store still holds it.
KeptInv ==
  /\ placed \subseteq Key \X Configured
  /\ op = "idle" => placed = {}
  /\ op = "Read" => placed = {<<Head(todo), Fastest>>}
  /\ \A x \in placed : Safe(x[1], x[2]) => Held(x[1], x[2])

\* No configured tier lies between a tier and the next slower one.
LEMMA NextSlowerLeast ==
  ASSUME NEW t \in Tier, NEW u \in Configured, u > t
  PROVE  NextSlowerConfigured(t) <= u /\ NextSlowerConfigured(t) \in Configured
<1> DEFINE slower == {c \in Configured : c > t}
<1>1. slower \in SUBSET Tier /\ u \in slower
  BY TierAssumption
<1>2. Min(slower) \in slower /\ \A y \in slower : Min(slower) <= y
  <2> HIDE DEF slower
  <2> QED BY <1>1, TierMinMax
<1>3. NextSlowerConfigured(t) = Min(slower)
  BY <1>1 DEF NextSlowerConfigured
<1> QED BY <1>1, <1>2, <1>3

\* The recency of blocks are numbers, and not beyond the clock.
LEMMA StampsBelowClock ==
  ASSUME Inv, RecencyUnique
  PROVE  /\ clock \in Nat
         /\ \A k \in Key : blocks[k].ts \in Nat /\ blocks[k].ts <= clock
<1>1. clock \in Nat /\ blocks \in [Key -> StoredBlock \cup {NoBlock}]
  BY DEF Inv, TypeOK, QueueType, StoreType
<1>2. ASSUME NEW k \in Key PROVE blocks[k].ts \in Nat /\ blocks[k].ts <= clock
  <2>1. CASE blocks[k].tier # NoTier
    BY <1>1, <2>1, InTier DEF RecencyUnique, Resident, StoredBlock
  <2>2. CASE blocks[k].tier = NoTier
    <3>1. blocks[k] = NoBlock
      BY <1>1, <2>2, FastestType DEF StoredBlock
    <3> QED BY <1>1, <3>1 DEF NoBlock
  <2> QED BY <2>1, <2>2
<1> QED BY <1>1, <1>2

\* LRU evicts the newest block of a tier only when it is the only one.
LEMMA NewestIsAlone ==
  ASSUME Inv, RecencyUnique, NEW k \in Key, NEW t \in Tier,
         blocks[k].tier = t, Newest(k), k \in LruVictims(t)
  PROVE  used[t] = Size[blocks[k].payload]
<1> DEFINE S == {j \in Key : blocks[j].tier = t}
<1>1. PICK e \in victimIndex[t] : k = e[2] /\ \A f \in victimIndex[t] : e[1] <= f[1]
  BY DEF LruVictims, Oldest
<1>2. Indexes(victimIndex[t], {j \in Key : t # Fastest /\ blocks[j].tier = t})
  BY DEF Inv, IndexSync
<1>3. t # Fastest /\ e = <<blocks[k].ts, k>>
  BY <1>1, <1>2 DEF Indexes
<1>4. ASSUME NEW j \in S PROVE j = k
  <2>1. <<blocks[j].ts, j>> \in victimIndex[t]
    BY <1>2, <1>3 DEF Indexes
  <2>2. blocks[k].ts <= blocks[j].ts
    BY <1>1, <1>3, <2>1
  <2>3. blocks[j].ts <= blocks[k].ts
    BY DEF Newest
  <2>4. blocks[j].ts = blocks[k].ts
    BY <2>2, <2>3, StampsBelowClock
  <2>5. j \in Resident /\ k \in Resident
    BY InTier DEF Resident, Tier, NoTier
  <2> QED BY <2>4, <2>5 DEF RecencyUnique
<1>5. S = {k}
  BY <1>4
<1>6. used[t] = Cardinality(ByteSet(blocks, {k}))
  BY <1>5 DEF Inv, ByteAccounting, Bytes
<1>7. blocks[k].payload \in Payload
  BY InTier DEF Inv, TypeOK, StoreType
<1>8. Cardinality(ByteSet(blocks, {k})) =
        Cardinality(ByteSet(blocks, {k} \ {k})) + Size[blocks[k].payload]
  <2>1. k \in {k}
    OBVIOUS
  <2> QED BY <1>7, <2>1, ByteSetSplit
<1>9. {k} \ {k} = {} /\ Size[blocks[k].payload] \in Nat
  BY <1>7, SizeType
<1>10. Cardinality(ByteSet(blocks, {k} \ {k})) = 0
  <2>1. Cardinality(ByteSet(blocks, {})) = 0
    BY ByteSetEmpty
  <2> QED BY <1>9, <2>1
<1> QED BY <1>6, <1>8, <1>9, <1>10

\* An eviction into another tier leaves the newest block the newest.
LEMMA NewestKept ==
  ASSUME NEW k \in Key, NEW v \in Key \ {k}, Newest(k),
         blocks[k].tier # NoTier,
         \A j \in Key \ {v} : blocks'[j] = blocks[j],
         blocks'[v].tier # blocks[k].tier
  PROVE  Newest(k)'
BY DEF Newest

\* Held through an eviction: the block itself is demoted at most once.
LEMMA HeldEvict ==
  ASSUME Inv, RecencyUnique, Stored,
         NEW k \in Key, NEW t \in Configured, Safe(k, t), Held(k, t),
         NEW u \in frames, NEW v \in Key, Evicting(u), blocks[v].tier = u,
         Evict(v, u), Picked(v, u)
  PROVE  Held(k, t)'
<1>1. /\ v \in Resident /\ u \in Configured
      /\ Fits(v, u) => /\ Stamped(v, blocks[v].payload)
                       /\ blocks'[v].tier = NextSlowerConfigured(u)
                       /\ frames' = frames \cup {NextSlowerConfigured(u)}
      /\ ~Fits(v, u) => Removed(v) /\ frames' = frames
      /\ used'[u] = used[u] - Size[blocks[v].payload]
      /\ \A c \in Tier : c # NextSlowerConfigured(u) => used'[c] <= used[c]
  BY EvictEffect
<1>2. /\ t \in Tier /\ u \in Tier /\ Fastest \in Configured /\ Fastest \in Tier
      /\ Fastest <= t /\ Fastest <= u
  BY <1>1, FastestType DEF Tier, NoTier
<1>3. /\ NextSlowerConfigured(u) > u /\ NextSlowerConfigured(u) \in Configured \cup {NoTier}
      /\ NextSlowerConfigured(u) \in 0..3
  <2>1. /\ NextSlowerConfigured(u) > u
        /\ NextSlowerConfigured(u) \in Configured \cup {NoTier}
    BY <1>2, NextSlowerType
  <2>2. Configured \cup {NoTier} \subseteq 0..3
    BY TierAssumption DEF Tier, NoTier
  <2> QED BY <2>1, <2>2
<1>4. /\ \A j \in Key \ {v} : blocks'[j] = blocks[j]
      /\ blocks'[v].tier \in {NextSlowerConfigured(u), NoTier}
      /\ frames' \subseteq frames \cup {NextSlowerConfigured(u)}
  BY <1>1 DEF Stamped, Removed, NoBlock
<1>5. used[u] > EvictionThresholdOf(u) /\ (u = Fastest \/ v \in LruVictims(u))
  BY DEF Evicting, Safe, Picked, QuotaVictims
<1>6. /\ \A c \in Tier : used[c] \in Nat /\ used'[c] \in Nat
      /\ EvictionThresholdOf(Fastest) \in Nat /\ EvictionThresholdOf(t) \in Nat
      /\ EvictionThresholdOf(u) \in Nat
  <2>1. StoreInv'
    BY EvictInv
  <2> QED BY <1>2, <2>1, ThresholdType DEF Inv, TypeOK, StoreInv, StoreType
<1>7. Fastest # NextSlowerConfigured(u) /\ used'[Fastest] <= used[Fastest]
  BY <1>1, <1>2, <1>3 DEF Tier
<1>8. blocks[v].payload \in Payload /\ Size[blocks[v].payload] \in Nat
  BY <1>1, InTier, SizeType DEF Inv, TypeOK, StoreType, Resident
<1>9. CASE InFastest(k, t)
  <2>1. /\ t = Fastest /\ blocks[k].tier = t
        /\ used[t] <= EvictionThresholdOf(t) + Size[blocks[k].payload]
    BY <1>9 DEF InFastest
  <2>2. blocks[k].payload \in Payload /\ Size[blocks[k].payload] \in Nat
    BY <1>2, <2>1, InTier, SizeType DEF Inv, TypeOK, StoreType
  <2>3. CASE v = k
    <3>1. u = Fastest /\ u = t
      BY <2>1, <2>3
    <3>2. /\ NextSlowerConfigured(t) # NoTier
          /\ Size[blocks[k].payload] <= EvictionThresholdOf(NextSlowerConfigured(t))
      BY <1>1, <2>1, <2>3 DEF Safe, Stored
    <3>3. Fits(v, u)
      <4>1. NextSlowerConfigured(t) \in Tier
        BY <1>3, <3>1, <3>2, FastestType
      <4>2. /\ EvictionThresholdOf(NextSlowerConfigured(t)) <= CapacityOf(NextSlowerConfigured(t))
            /\ EvictionThresholdOf(NextSlowerConfigured(t)) \in Nat
            /\ CapacityOf(NextSlowerConfigured(t)) \in Nat
        BY <4>1, ThresholdType
      <4> QED BY <2>2, <2>3, <3>1, <3>2, <4>2 DEF Fits
    <3>4. /\ Stamped(k, blocks[k].payload)
          /\ blocks'[k].tier = NextSlowerConfigured(t)
          /\ used'[t] = used[t] - Size[blocks[k].payload]
      BY <1>1, <2>3, <3>1, <3>3
    <3>5. used'[t] <= EvictionThresholdOf(t)
      BY <1>2, <1>6, <2>1, <2>2, <3>4
    <3>6. Newest(k)'
      <4>1. \A j \in Key \ {k} : blocks'[j].ts \in Nat /\ blocks'[j].ts <= clock
        BY <3>4, StampsBelowClock DEF Stamped
      <4>2. blocks'[k].ts = clock + 1 /\ clock \in Nat
        BY <3>4, StampsBelowClock DEF Stamped
      <4> QED BY <4>1, <4>2 DEF Newest
    <3> QED BY <2>1, <3>4, <3>5, <3>6 DEF Held, DemotedOnce
  <2>4. CASE v # k
    <3>1. blocks'[k] = blocks[k]
      BY <1>4, <2>4
    <3>2. used'[t] <= EvictionThresholdOf(t) + Size[blocks'[k].payload]
      BY <1>2, <1>6, <1>7, <2>1, <2>2, <3>1
    <3> QED BY <2>1, <3>1, <3>2 DEF Held, InFastest
  <2> QED BY <2>3, <2>4
<1>10. CASE DemotedOnce(k, t)
  <2>1. /\ t = Fastest /\ blocks[k].tier = NextSlowerConfigured(t)
        /\ used[t] <= EvictionThresholdOf(t)
        /\ Newest(k)
    BY <1>10 DEF DemotedOnce
  <2>2. NextSlowerConfigured(t) # NoTier
    BY <2>1 DEF Safe
  <2>3. NextSlowerConfigured(t) \in Configured /\ NextSlowerConfigured(t) \in Tier
    BY <1>2, <2>2, NextSlowerType, FastestType
  <2>4. Size[blocks[k].payload] <= EvictionThresholdOf(NextSlowerConfigured(t))
    BY <2>1, <2>2 DEF Safe, Stored, Resident
  <2>5. u # Fastest /\ v \in LruVictims(u)
    BY <1>2, <1>5, <1>6, <2>1
  <2>6. v # k
    <3>1. SUFFICES ASSUME v = k PROVE FALSE
      OBVIOUS
    <3>2. used[u] = Size[blocks[k].payload]
      BY <1>2, <2>1, <2>5, <3>1, NewestIsAlone
    <3> QED BY <1>5, <1>6, <1>8, <2>1, <2>4, <3>1, <3>2
  <2>7. NextSlowerConfigured(t) <= u
    BY <1>1, <1>2, <2>1, <2>5, NextSlowerLeast DEF Tier
  <2>8. blocks'[v].tier # blocks[k].tier /\ blocks[k].tier # NoTier
    BY <1>2, <1>3, <1>4, <2>1, <2>2, <2>3, <2>7 DEF Tier
  <2>9. Newest(k)' /\ blocks'[k] = blocks[k]
    BY <1>4, <2>1, <2>6, <2>8, NewestKept
  <2>10. used'[t] <= EvictionThresholdOf(t)
    BY <1>2, <1>6, <1>7, <2>1
  <2> QED BY <2>1, <2>9, <2>10 DEF Held, DemotedOnce
<1>11. CASE InSlower(k, t)
  <2>1. /\ t # Fastest /\ blocks[k].tier = t
        /\ Size[blocks[k].payload] <= EvictionThresholdOf(t)
        /\ Newest(k)
        /\ \A c \in frames : t <= c
    BY <1>11 DEF InSlower
  <2>2. u # Fastest /\ v \in LruVictims(u) /\ t <= u
    BY <1>2, <1>5, <2>1 DEF Tier
  <2>3. v # k
    <3>1. SUFFICES ASSUME v = k PROVE FALSE
      OBVIOUS
    <3>2. used[u] = Size[blocks[k].payload] /\ u = t
      BY <1>2, <2>1, <2>2, <3>1, NewestIsAlone
    <3> QED BY <1>5, <1>6, <1>8, <2>1, <3>1, <3>2
  <2>4. blocks'[v].tier # blocks[k].tier /\ blocks[k].tier # NoTier
    BY <1>2, <1>3, <1>4, <2>1, <2>2 DEF Tier, NoTier
  <2>5. Newest(k)' /\ blocks'[k] = blocks[k]
    BY <1>4, <2>1, <2>3, <2>4, NewestKept
  <2>6. \A c \in frames' : t <= c
    BY <1>2, <1>3, <1>4, <2>1, <2>2 DEF Tier
  <2> QED BY <2>1, <2>5, <2>6 DEF Held, InSlower
<1> QED BY <1>9, <1>10, <1>11 DEF Held

\* Held through a step that moves nothing and enforces no further tier.
LEMMA HeldSettled ==
  ASSUME NEW k \in Key, NEW t, Held(k, t), Settled, UNCHANGED used,
         frames' \subseteq frames
  PROVE  Held(k, t)'
<1>1. /\ \A j \in Key : blocks'[j].tier = blocks[j].tier /\ blocks'[j].ts = blocks[j].ts
      /\ blocks'[k].payload = blocks[k].payload
  BY DEF Settled
<1>2. Newest(k) => Newest(k)'
  BY <1>1 DEF Newest
<1> QED BY <1>1, <1>2 DEF Held, InFastest, DemotedOnce, InSlower

\* A placement in the fastest tier, with every tier within its mark before.
LEMMA HeldPlaced ==
  ASSUME Inv, Inv', NEW k \in Key, NEW p \in Payload, frames = {},
         Stamped(k, p), blocks'[k].tier = Fastest, Fastest \in Configured
  PROVE  Held(k, Fastest)'
<1> DEFINE S == {j \in Key : blocks[j].tier = Fastest}
           T == {j \in Key : blocks'[j].tier = Fastest}
<1>1. Fastest \in Tier /\ k \in T /\ blocks'[k].payload = p
  BY FastestType DEF Stamped
<1>2. /\ used[Fastest] = Cardinality(ByteSet(blocks, S))
      /\ used'[Fastest] = Cardinality(ByteSet(blocks', T))
  <2>1. used[Fastest] = Cardinality(ByteSet(blocks, S))
    BY <1>1 DEF Inv, ByteAccounting, Bytes
  <2>2. used'[Fastest] = Bytes({j \in Key : blocks[j].tier = Fastest})'
    BY <1>1 DEF Inv, ByteAccounting
  <2>3. Bytes({j \in Key : blocks[j].tier = Fastest})' = Cardinality(ByteSet(blocks', T))
    BY DEF Bytes
  <2> QED BY <2>1, <2>2, <2>3
<1>3. Cardinality(ByteSet(blocks', T)) =
        Cardinality(ByteSet(blocks', T \ {k})) + Size[p]
  <2> HIDE DEF T
  <2> QED BY <1>1, ByteSetSplit
<1>4. ByteSet(blocks', T \ {k}) \subseteq ByteSet(blocks, S)
  BY DEF Stamped, ByteSet
<1>5. Cardinality(ByteSet(blocks', T \ {k})) <= Cardinality(ByteSet(blocks, S))
  <2> HIDE DEF S, T
  <2> QED BY <1>4, ByteSetFinite, FS_Subset
<1>6. /\ Cardinality(ByteSet(blocks', T \ {k})) \in Nat
      /\ Cardinality(ByteSet(blocks, S)) \in Nat
      /\ Size[p] \in Nat /\ EvictionThresholdOf(Fastest) \in Nat
  <2> HIDE DEF S, T
  <2> QED BY <1>1, ByteSetFinite, SizeType, ThresholdType
<1>7. used[Fastest] <= EvictionThresholdOf(Fastest)
  BY <1>1 DEF Inv, CapacityBound
<1>8. used'[Fastest] <= EvictionThresholdOf(Fastest) + Size[p]
  <2> HIDE DEF S, T
  <2> QED BY <1>2, <1>3, <1>5, <1>6, <1>7
<1> QED BY <1>1, <1>8 DEF Held, InFastest

\* A write into a slower tier.
LEMMA HeldWritten ==
  ASSUME Inv, RecencyUnique, NEW k \in Key, NEW p \in Payload, NEW t \in Configured,
         t # Fastest, Stamped(k, p), blocks'[k].tier = t, frames' = {t},
         Size[p] <= EvictionThresholdOf(t)
  PROVE  Held(k, t)'
<1>1. \A j \in Key \ {k} : blocks'[j].ts \in Nat /\ blocks'[j].ts <= clock
  BY StampsBelowClock DEF Stamped
<1>2. blocks'[k].ts = clock + 1 /\ clock \in Nat
  BY StampsBelowClock DEF Stamped
<1>3. Newest(k)'
  BY <1>1, <1>2 DEF Newest
<1>4. blocks'[k].payload = p /\ \A u \in frames' : t <= u
  BY FastestType DEF Stamped, Tier
<1> QED BY <1>3, <1>4 DEF Held, InSlower

\* Safe speaks of what was written, so it does not change within a call.
LEMMA SafeKept ==
  ASSUME NEW k \in Key, NEW t, written'[k] = written[k]
  PROVE  Safe(k, t)' = Safe(k, t)
BY DEF Safe

\* The control part of a quiet step: what it does to the running call.
LEMMA QuietControl ==
  ASSUME Inv, Quiet
  PROVE  /\ frames' \subseteq frames \/ op = "idle"
         /\ op' = "idle" \/ op = "idle" \/ op' = op
         /\ op' = "Read" => op = "Read" /\ todo' = todo
         /\ op # "idle" => ~(frames = {} /\ frames' # {})
<1>1. CASE S3SmallToMain \/ S3MainSecondChance
  BY <1>1, RequeueEffect
<1>2. CASE FinishRead \/ FinishCall
  BY <1>2 DEF FinishRead, FinishCall, Return
<1>3. CASE PrefetchSkip
  BY <1>3 DEF PrefetchSkip
<1>4. ASSUME NEW t \in Tier, LeaveEnforce(t)
      PROVE  /\ frames' \subseteq frames
             /\ op' = "idle" \/ (op' = op /\ todo' = todo)
  BY <1>4 DEF LeaveEnforce, Return
<1>5. CASE S3SmallStale \/ S3MainStale \/ UNCHANGED vars
  BY <1>5 DEF S3SmallStale, S3MainStale, vars, control
<1>6. ASSUME NEW p \in Payload, NEW t \in Tier, WriteRejected(p, t)
      PROVE  op = "idle" /\ op' = "idle"
  BY <1>6 DEF WriteRejected, Return
<1>7. ASSUME NEW k \in Key, ReadMiss(k) PROVE op = "idle" /\ op' = "idle"
  BY <1>7 DEF ReadMiss, Return
<1>8. ASSUME NEW keys \in KeyLists, Prefetch(keys) PROVE op = "idle" /\ op' = "Prefetch"
  BY <1>8 DEF Prefetch, Call
<1>9. ASSUME NEW t \in Tier, EnforceCapacity(t)
      PROVE  op = "idle" /\ op' = "EnforceCapacity"
  BY <1>9 DEF EnforceCapacity, Call
<1> QED BY <1>1, <1>2, <1>3, <1>4, <1>5, <1>6, <1>7, <1>8, <1>9 DEF Quiet

LEMMA KeptStep ==
  ASSUME Inv, Inv', RecencyUnique, Stored, KeptInv, [CallNext]_callVars
  PROVE  KeptInv'
<1>1. /\ placed \subseteq Key \X Configured
      /\ op = "idle" => placed = {} /\ frames = {}
      /\ op = "Read" => placed = {<<Head(todo), Fastest>>}
      /\ \A x \in placed : Safe(x[1], x[2]) => Held(x[1], x[2])
  BY DEF KeptInv, Inv, TypeOK, ControlType
<1>2. ASSUME NEW k \in Key, NEW t \in Configured, placed' = {<<k, t>>},
             Held(k, t)', op' # "idle",
             op' = "Read" => t = Fastest /\ k = Head(todo')
      PROVE  KeptInv'
  BY <1>2 DEF KeptInv
<1>3. ASSUME placed' = {}, op' # "Read" PROVE KeptInv'
  BY <1>3 DEF KeptInv
<1>4. ASSUME UNCHANGED <<placed, written>>,
             \A x \in placed : Safe(x[1], x[2]) => Held(x[1], x[2])',
             op' = "idle" => op = "idle",
             op' = "Read" => op = "Read" /\ todo' = todo
      PROVE  KeptInv'
  <2>1. ASSUME NEW x \in placed', Safe(x[1], x[2])' PROVE Held(x[1], x[2])'
    <3>1. x \in placed /\ x[1] \in Key
      BY <1>1, <1>4
    <3>2. Safe(x[1], x[2])
      BY <1>4, <2>1, <3>1, SafeKept
    <3> QED BY <1>4, <3>1, <3>2
  <2>2. /\ placed' \subseteq Key \X Configured
        /\ op' = "idle" => placed' = {}
        /\ op' = "Read" => placed' = {<<Head(todo'), Fastest>>}
    BY <1>1, <1>4
  <2> QED BY <2>1, <2>2 DEF KeptInv
<1>5. ASSUME NEW k \in Key, NEW p \in Payload, NEW target \in Tier, NEW n \in Tenant,
             Write(k, p, target, n),
             placed' = {<<k, ResolveConfiguredTier(target)>>}
      PROVE  KeptInv'
  <2>1. PICK t \in Configured : t = ResolveConfiguredTier(target)
    BY <1>5, WriteEffect
  <2>2. /\ Size[p] <= EvictionThresholdOf(t) /\ Stamped(k, p)
        /\ blocks'[k].tier = t /\ frames' = {t} /\ op = "idle" /\ op' = "Write"
    BY <1>5, <2>1, WriteEffect
  <2>3. Held(k, t)'
    <3>1. CASE t = Fastest
      BY <1>1, <2>2, <3>1, HeldPlaced
    <3>2. CASE t # Fastest
      BY <2>2, <3>2, HeldWritten
    <3> QED BY <3>1, <3>2
  <2> QED BY <1>2, <1>5, <2>1, <2>2, <2>3
<1>6. ASSUME Quiet, UNCHANGED written,
             placed' = NowPlaced \/ (op = "idle" /\ placed' = placed)
      PROVE  KeptInv'
  <2>1. /\ frames' \subseteq frames \/ op = "idle"
        /\ op' = "idle" \/ op = "idle" \/ op' = op
        /\ op' = "Read" => op = "Read" /\ todo' = todo
        /\ op # "idle" => ~(frames = {} /\ frames' # {})
    BY <1>6, QuietControl
  <2>2. CASE op' = "idle" \/ op = "idle"
    <3>1. placed' = {}
      BY <1>1, <1>6, <2>2 DEF NowPlaced
    <3>2. op' # "Read"
      BY <2>1, <2>2
    <3> QED BY <1>3, <3>1, <3>2
  <2>3. CASE op' # "idle" /\ op # "idle"
    <3>1. placed' = placed
      BY <1>6, <2>1, <2>3 DEF NowPlaced
    <3>2. Settled /\ UNCHANGED used /\ frames' \subseteq frames
      BY <1>6, <2>1, <2>3, QuietEffect
    <3>3. \A x \in placed : Safe(x[1], x[2]) => Held(x[1], x[2])'
      <4>1. ASSUME NEW x \in placed, Safe(x[1], x[2]) PROVE Held(x[1], x[2])'
        <5>1. x[1] \in Key /\ Held(x[1], x[2])
          BY <1>1, <4>1
        <5> QED BY <3>2, <5>1, HeldSettled
      <4> QED BY <4>1
    <3> QED BY <1>4, <1>6, <2>1, <2>3, <3>1, <3>3
  <2> QED BY <2>2, <2>3
<1>7. ASSUME NEW k \in Key, ReadFast(k) \/ ReadSlowInPlace(k), placed' = NowPlaced
      PROVE  KeptInv'
  <2>1. op' = "idle"
    BY <1>7 DEF ReadFast, ReadSlowInPlace, Return
  <2> QED BY <1>3, <1>7, <2>1 DEF NowPlaced
<1>8. ASSUME NEW k \in Key, ReadPromote(k), placed' = {<<k, Fastest>>}
      PROVE  KeptInv'
  <2>1. /\ k \in Resident /\ Stamped(k, blocks[k].payload)
        /\ blocks'[k].tier = Fastest /\ Fastest \in Configured
    BY <1>8, PromoteEffect
  <2>2. op = "idle" /\ op' = "Read" /\ todo' = <<k>>
    BY <1>8 DEF ReadPromote, Call
  <2>3. blocks[k].payload \in Payload
    BY <2>1, InTier DEF Inv, TypeOK, StoreType, Resident
  <2>4. Held(k, Fastest)'
    BY <1>1, <2>1, <2>2, <2>3, HeldPlaced
  <2> QED BY <1>2, <1>8, <2>1, <2>2, <2>4
<1>9. ASSUME PrefetchPlace, placed' = NowPlaced PROVE KeptInv'
  <2>1. /\ op = "Prefetch" /\ frames = {}
        /\ Head(todo) \in Resident /\ Fastest \in Configured
        /\ Stamped(Head(todo), blocks[Head(todo)].payload)
        /\ blocks'[Head(todo)].tier = Fastest
        /\ op' = "Prefetch" /\ frames' = {Fastest}
    BY <1>9, PrefetchEffect
  <2>2. PICK k \in Resident : k = Head(todo)
    BY <2>1
  <2>3. k \in Key /\ blocks[k].payload \in Payload
    BY <2>2, InTier DEF Inv, TypeOK, StoreType, Resident
  <2>4. Held(k, Fastest)'
    BY <2>1, <2>2, <2>3, HeldPlaced
  <2>5. placed' = {<<k, Fastest>>}
    BY <1>9, <2>1, <2>2 DEF NowPlaced
  <2> QED BY <1>2, <2>1, <2>3, <2>4, <2>5
<1>10. ASSUME NEW u \in frames, NEW v \in Key, Evicting(u), blocks[v].tier = u,
              Evict(v, u), Picked(v, u),
              placed' = NowPlaced, UNCHANGED written
       PROVE  KeptInv'
  <2>1. UNCHANGED <<op, todo>> /\ op # "idle" /\ frames # {}
    BY <1>1, <1>10 DEF Evict
  <2>2. placed' = placed
    BY <1>10, <2>1 DEF NowPlaced
  <2>3. ASSUME NEW x \in placed, Safe(x[1], x[2]) PROVE Held(x[1], x[2])'
    <3>1. x[1] \in Key /\ x[2] \in Configured /\ Held(x[1], x[2])
      BY <1>1, <2>3
    <3> QED BY <1>10, <2>3, <3>1, HeldEvict
  <2> QED BY <1>4, <1>10, <2>1, <2>2, <2>3
<1>11. CASE UNCHANGED callVars
  <2>1. /\ UNCHANGED <<placed, written, op, todo, frames, used>> /\ Settled
    BY <1>11 DEF callVars, history, vars, store, control, Settled
  <2>2. ASSUME NEW x \in placed, Safe(x[1], x[2]) PROVE Held(x[1], x[2])'
    <3>1. x[1] \in Key /\ Held(x[1], x[2])
      BY <1>1, <2>2
    <3> QED BY <2>1, <3>1, HeldSettled
  <2> QED BY <1>4, <2>1, <2>2
<1>12. CASE CallNext
  BY <1>5, <1>6, <1>7, <1>8, <1>9, <1>10, <1>12, CallKinds
<1> QED BY <1>11, <1>12

\* A read that is about to answer answers with its block.
LEMMA HitStep ==
  ASSUME Inv, Inv', KeptInv, PlacedKept, CallNext, op = "Read", op' = "idle",
         \A x \in placed : Safe(x[1], x[2])
  PROVE  ret'.status = "Ok"
<1>1. CASE FinishRead
  <2>1. placed = {<<Head(todo), Fastest>>} /\ frames = {}
    BY <1>1 DEF KeptInv, FinishRead
  <2>2. Head(todo) \in Resident
    BY <2>1 DEF PlacedKept
  <2> QED BY <1>1, <2>2 DEF FinishRead, Return
<1>2. ASSUME NEW t \in Tier, LeaveEnforce(t) PROVE ret'.status = "Ok"
  <2>1. ret'.status = "InternalNoVictim"
    BY <1>2 DEF LeaveEnforce, Return
  <2> QED BY <2>1 DEF Inv, VictimFound
<1>3. ~CallStart
  BY DEF CallStart, Write, ReadPromote, Prefetch, EnforceCapacity
<1>4. ~ \E p \in Payload, t \in Tier : WriteRejected(p, t)
  BY DEF WriteRejected
<1>5. ~ \E k \in Key : ReadMiss(k) \/ ReadFast(k) \/ ReadSlowInPlace(k)
  BY DEF ReadMiss, ReadFast, ReadSlowInPlace
<1>6. ~FinishCall /\ ~PrefetchSkip /\ ~PrefetchPlace
  BY DEF FinishCall, PrefetchSkip, PrefetchPlace
<1>7. ~(S3SmallStale \/ S3SmallToMain \/ S3MainStale \/ S3MainSecondChance)
  BY DEF S3SmallStale, S3SmallToMain, S3MainStale, S3MainSecondChance, control
<1>8. ~ \E t \in Tier : EvictQuota(t) \/ EvictLru(t)
  BY DEF EvictQuota, EvictLru, Evict
<1>9. ~S3SmallEvict /\ ~S3MainEvict
  BY DEF S3SmallEvict, S3MainEvict, Evict
<1> QED BY <1>1, <1>2, <1>3, <1>4, <1>5, <1>6, <1>7, <1>8, <1>9, Zenon
        DEF CallNext, CallStep, Locked

\* The enforcement that a call triggers never removes the block the call has
\* just placed, if the next tier can hold it: a write is not lost before it
\* returns, and a read that promotes its block returns it.
THEOREM PlacedBlocksKept == CallSpec => CallsKeepBlocks
<1> DEFINE I == Inv /\ RecencyUnique /\ Stored /\ KeptInv
<1>1. CallInit => I
  <2> SUFFICES ASSUME CallInit PROVE I
    OBVIOUS
  <2>1. /\ Init /\ written = [k \in Key |-> NoPayload] /\ placed = {}
        /\ op = "idle"
    BY DEF CallInit, Init
  <2>2. Resident = {}
    BY <2>1 DEF Init, Resident, NoBlock, NoTier
  <2> QED BY <2>1, <2>2, InitInv DEF RecencyUnique, Stored, KeptInv
<1>2. I /\ [CallNext]_callVars => I'
  <2> SUFFICES ASSUME I, [CallNext]_callVars PROVE I'
    OBVIOUS
  <2>1. [Next]_vars
    BY CallIsStep
  <2>2. Inv' /\ RecencyUnique'
    BY <2>1, NextInv, RecencyStep
  <2> QED BY <2>2, StoredStep, KeptStep
<1>3. I => PlacedKept
  <2> SUFFICES ASSUME I, NEW x \in placed, Safe(x[1], x[2])
               PROVE  x[1] \in Resident
    BY DEF PlacedKept
  <2>1. x[1] \in Key /\ x[2] \in Configured /\ Held(x[1], x[2])
    BY DEF KeptInv
  <2>2. x[2] # NoTier /\ (x[2] = Fastest => NextSlowerConfigured(x[2]) # NoTier)
    BY <2>1, FastestType DEF Safe
  <2>3. blocks[x[1]].tier # NoTier
    BY <2>1, <2>2 DEF Held, InFastest, DemotedOnce, InSlower
  <2> QED BY <2>1, <2>3 DEF Resident
<1>4. I /\ I' /\ [CallNext]_callVars
        => [op = "Read" /\ op' = "idle" /\ (\A x \in placed : Safe(x[1], x[2]))
              => ret'.status = "Ok"]_callVars
  <2> SUFFICES ASSUME I, I', CallNext, op = "Read", op' = "idle",
                      \A x \in placed : Safe(x[1], x[2])
               PROVE  ret'.status = "Ok"
    OBVIOUS
  <2> QED BY <1>3, HitStep
<1> HIDE DEF I
<1> QED BY <1>1, <1>2, <1>3, <1>4, PTL DEF CallSpec, CallsKeepBlocks, HitServed

----------------------------------------------------------------------------
(* Quotas *)

\* A non-empty set of numbers has a least member.
LEMMA LeastNat ==
  ASSUME NEW S \in SUBSET Nat, S # {}
  PROVE  \E n \in S : \A m \in S : n <= m
<1>1. PICK n \in S : \A m \in S : ~(<<m, n>> \in OpToRel(<, Nat))
  BY NatLessThanWellFounded, WFMin
<1>2. \A m \in S : ~(m < n)
  BY <1>1 DEF OpToRel
<1> QED BY <1>2

\* The weights add up to a number.
LEMMA TotalWeightType == TotalWeight \in Nat
<1> DEFINE units == [n \in Weighted |-> {n} \X (1..Weight[n])]
           all == {{n} \X (1..Weight[n]) : n \in Weighted}
<1>1. units \in Surjection(Weighted, all)
  BY DEF Surjection
<1>2. IsFiniteSet(all)
  <2> HIDE DEF units, all
  <2> QED BY <1>1, FS_Surjection, TenantAssumption
<1>3. ASSUME NEW T \in all PROVE IsFiniteSet(T)
  <2>1. PICK n \in Weighted : T = {n} \X (1..Weight[n])
    OBVIOUS
  <2>2. 1 \in Int /\ Weight[n] \in Int
    BY TenantAssumption
  <2>3. IsFiniteSet(1..Weight[n])
    BY <2>2, FS_Interval
  <2>4. IsFiniteSet({n})
    BY FS_Singleton
  <2> QED BY <2>1, <2>3, <2>4, FS_Product
<1>4. IsFiniteSet(UNION all)
  <2> HIDE DEF all
  <2> QED BY <1>2, <1>3, FS_UNION
<1> QED BY <1>4, FS_CardinalityType DEF TotalWeight

\* The scan of PickQuotaVictimLocked computes on the books what OverShare
\* says of the blocks, and no tenant has more bytes than there are.
LEMMA OverageSound ==
  ASSUME Inv, QuotaEnabled, NEW t \in Tier, NEW n \in Tenant
  PROVE  /\ Overage(t, n) \in Int
         /\ Overage(t, n) > 0 <=> OverShare(t, n)
         /\ Overage(t, n) > 0 => tenantIndex[t][n] # {}
         /\ Overage(t, n) <=
              Cardinality(Key \X (1..MaxSize)) * (TotalWeight + 1)
<1> DEFINE S == {k \in Key : blocks[k].tier = t /\ blocks[k].tenant = n}
           share == IF n \in Weighted THEN CapacityOf(t) * Weight[n] ELSE 0
           W == TotalWeight
           B == Cardinality(Key \X (1..MaxSize))
           x == tenantUsed[t][n]
<1>1. x = Cardinality(ByteSet(blocks, S))
  BY DEF Inv, ByteAccounting, Bytes
<1>2. W \in Nat
  BY TotalWeightType
<1>3. share \in Nat
  BY ThresholdType, TenantAssumption
<1>4. x \in Nat /\ B \in Nat /\ x <= B
  <2>1. 1 \in Int /\ MaxSize \in Int
    BY PayloadAssumption
  <2>2. IsFiniteSet(Key \X (1..MaxSize))
    BY <2>1, FS_Interval, FS_Product, KeyAssumption
  <2>3. ByteSet(blocks, S) \in SUBSET (Key \X (1..MaxSize))
    BY DEF ByteSet
  <2>4. Cardinality(ByteSet(blocks, S)) <= B /\ B \in Nat
    <3> HIDE DEF S
    <3> QED BY <2>2, <2>3, FS_Subset, FS_CardinalityType
  <2> HIDE DEF S, B
  <2> QED BY <1>1, <2>4, ByteSetFinite
<1>5. Overage(t, n) = IF W = 0 THEN x ELSE x * W - share
  BY DEF Overage
<1>6. OverShare(t, n) <=> IF W = 0 THEN x > 0 ELSE x * W > share
  BY <1>1 DEF OverShare, Bytes
<1>7. x > 0 => tenantIndex[t][n] # {}
  <2> SUFFICES ASSUME x > 0 PROVE tenantIndex[t][n] # {}
    OBVIOUS
  <2>1. S # {}
    <3> SUFFICES ASSUME S = {} PROVE FALSE
      OBVIOUS
    <3>1. Cardinality(ByteSet(blocks, {})) = 0
      BY ByteSetEmpty
    <3>2. x = 0
      <4>1. ByteSet(blocks, S) = ByteSet(blocks, {})
        OBVIOUS
      <4> QED BY <1>1, <3>1, <4>1
    <3> QED BY <3>2
  <2>2. Indexes(tenantIndex[t][n], S)
    BY DEF Inv, IndexSync
  <2> QED BY <2>1, <2>2 DEF Indexes
<1> HIDE DEF S, share, W, B, x
<1>8. x * W \in Nat /\ (x = 0 => x * W = 0)
  BY <1>2, <1>4
<1>9. x * W <= B * (W + 1) /\ x <= B * (W + 1)
  <2>1. PICK d \in Nat : B = x + d
    <3>1. B - x \in Nat /\ B = x + (B - x)
      BY <1>4
    <3> QED BY <3>1
  <2>2. d * W \in Nat /\ B * W \in Nat
    BY <1>2, <1>4, <2>1
  <2>3. B * W = x * W + d * W
    BY <1>2, <1>4, <2>1
  <2>4. B * (W + 1) = B * W + B
    BY <1>2, <1>4
  <2> QED BY <1>4, <1>8, <2>2, <2>3, <2>4
<1>10. /\ Overage(t, n) \in Int
       /\ Overage(t, n) > 0 <=> OverShare(t, n)
       /\ Overage(t, n) > 0 => x > 0
       /\ Overage(t, n) <= x * W \/ Overage(t, n) <= x
  BY <1>2, <1>3, <1>4, <1>5, <1>6, <1>8
<1>11. Overage(t, n) <= B * (W + 1)
  BY <1>2, <1>4, <1>8, <1>9, <1>10
<1> QED BY <1>7, <1>10, <1>11 DEF W, B

\* If some tenant exceeds its share of a tier, the quota scan finds a victim.
LEMMA QuotaFindsVictim ==
  ASSUME Inv, QuotaEnabled, NEW t \in Tier, NEW n0 \in Tenant, OverShare(t, n0)
  PROVE  QuotaVictims(t) # {}
<1> DEFINE M == Cardinality(Key \X (1..MaxSize)) * (TotalWeight + 1)
           S == {n \in Tenant : tenantIndex[t][n] # {}}
           rank(n) == M - Overage(t, n)
           ranks == {rank(n) : n \in S}
<1>1. \A n \in Tenant : /\ Overage(t, n) \in Int
                        /\ Overage(t, n) <= M
                        /\ n \in Nat
  BY OverageSound, TenantAssumption
<1>2. n0 \in S /\ Overage(t, n0) > 0
  BY OverageSound
<1>3. M \in Int
  <2>1. 1 \in Int /\ MaxSize \in Int
    BY PayloadAssumption
  <2>2. IsFiniteSet(Key \X (1..MaxSize))
    BY <2>1, FS_Interval, FS_Product, KeyAssumption
  <2>3. Cardinality(Key \X (1..MaxSize)) \in Nat /\ TotalWeight \in Nat
    BY <2>2, FS_CardinalityType, TotalWeightType
  <2> QED BY <2>3
<1> HIDE DEF M
<1>4. ranks \in SUBSET Nat /\ ranks # {}
  BY <1>1, <1>2, <1>3
<1>5. PICK a \in ranks : \A b \in ranks : a <= b
  <2> HIDE DEF ranks
  <2> QED BY <1>4, LeastNat
<1> DEFINE first == {n \in S : rank(n) = a}
<1>6. first \in SUBSET Nat /\ first # {}
  BY <1>1, <1>5
<1>7. PICK n \in first : \A m \in first : n <= m
  <2> HIDE DEF first
  <2> QED BY <1>6, LeastNat
<1>8. ASSUME NEW m \in S
      PROVE  \/ Overage(t, m) < Overage(t, n)
             \/ Overage(t, m) = Overage(t, n) /\ n <= m
  <2>1. /\ rank(n) = a /\ rank(m) \in ranks /\ a <= rank(m)
        /\ Overage(t, m) \in Int /\ Overage(t, n) \in Int
    BY <1>1, <1>5, <1>7
  <2>2. M - Overage(t, n) <= M - Overage(t, m)
    BY <2>1
  <2>3. CASE rank(m) = a
    <3>1. n <= m
      BY <1>7, <2>3
    <3>2. M - Overage(t, m) = M - Overage(t, n)
      BY <2>1, <2>3
    <3> QED BY <1>3, <2>1, <3>1, <3>2
  <2>4. CASE rank(m) # a
    <3>1. M - Overage(t, m) # M - Overage(t, n)
      BY <2>1, <2>4
    <3> QED BY <1>3, <2>1, <2>2, <3>1
  <2> QED BY <2>3, <2>4
<1>9. n \in WorstTenants(t)
  <2>1. n \in Tenant /\ tenantIndex[t][n] # {}
    BY <1>7
  <2>2. Overage(t, n) > 0
    BY <1>1, <1>2, <1>8, <2>1
  <2> QED BY <1>8, <2>1, <2>2 DEF WorstTenants
<1>10. Oldest(tenantIndex[t][n]) # {}
  <2> DEFINE I == tenantIndex[t][n]
             stamps == {e[1] : e \in I}
  <2>1. I \in SUBSET (Nat \X Key) /\ I # {}
    BY <1>7 DEF Inv, TypeOK, StoreType
  <2>2. stamps \in SUBSET Nat /\ stamps # {}
    BY <2>1
  <2>3. PICK s \in stamps : \A r \in stamps : s <= r
    <3> HIDE DEF stamps
    <3> QED BY <2>2, LeastNat
  <2>4. PICK e \in I : e[1] = s
    BY <2>3
  <2>5. e \in Oldest(I)
    BY <2>3, <2>4 DEF Oldest
  <2> QED BY <2>5
<1> QED BY <1>9, <1>10 DEF QuotaVictims

\* The owner of a block the quota scan picks exceeds its share.
LEMMA QuotaVictimOver ==
  ASSUME Inv, NEW t \in Tier, NEW v \in QuotaVictims(t)
  PROVE  OverShare(t, blocks[v].tenant)
<1>1. QuotaEnabled
  BY DEF QuotaVictims
<1>2. PICK n \in WorstTenants(t) : \E e \in tenantIndex[t][n] : v = e[2]
  BY <1>1 DEF QuotaVictims, Oldest
<1>3. n \in Tenant /\ Overage(t, n) > 0
  BY <1>2 DEF WorstTenants
<1>4. Indexes(tenantIndex[t][n],
              {k \in Key : blocks[k].tier = t /\ blocks[k].tenant = n})
  BY <1>1, <1>3 DEF Inv, IndexSync
<1>5. blocks[v].tenant = n
  BY <1>2, <1>4 DEF Indexes
<1> QED BY <1>1, <1>3, <1>5, OverageSound

\* Enforcement takes a block of a tenant within its share only when no tenant
\* exceeds its share of that tier, whatever the weights and the number of
\* tenants: the books the scan reads and its choice of the worst tenant are
\* exact.
THEOREM QuotaProtects == Spec => QuotaFirst
<1>1. Inv /\ [Next]_vars =>
        [\A k \in Resident :
           LET t == blocks[k].tier IN
           op # "idle" /\ QuotaEnabled /\ blocks'[k].tier > t
             => \/ OverShare(t, blocks[k].tenant)
                \/ \A n \in Tenant : ~OverShare(t, n)]_vars
  <2> SUFFICES ASSUME Inv, [Next]_vars, NEW k \in Resident, op # "idle",
                      QuotaEnabled, blocks'[k].tier > blocks[k].tier
               PROVE  \/ OverShare(blocks[k].tier, blocks[k].tenant)
                      \/ \A n \in Tenant : ~OverShare(blocks[k].tier, n)
    OBVIOUS
  <2>1. k \in Key /\ blocks[k].tier \in Configured /\ blocks[k].tier \in Tier
    BY InTier DEF Inv, TypeOK, StoreType, Resident, StoredBlock
  <2>2. ~Quiet
    BY <2>1, QuietEffect DEF Settled, Tier
  <2>3. ~PrefetchPlace
    <3> SUFFICES ASSUME PrefetchPlace PROVE FALSE
      OBVIOUS
    <3>1. /\ Stamped(Head(todo), blocks[Head(todo)].payload)
          /\ blocks'[Head(todo)].tier = Fastest /\ Fastest \in Configured
      BY PrefetchEffect
    <3>2. CASE k = Head(todo)
      <4>1. Fastest <= blocks[k].tier /\ Fastest \in Tier
        BY <2>1, <3>1, FastestType
      <4> QED BY <2>1, <3>1, <3>2, <4>1 DEF Tier
    <3>3. CASE k # Head(todo)
      BY <2>1, <3>1, <3>3 DEF Stamped, Tier
    <3> QED BY <3>2, <3>3
  <2>4. PICK t \in frames, v \in Key :
          blocks[v].tier = t /\ Evict(v, t) /\ Picked(v, t)
    <3>1. /\ \A j \in Key, p \in Payload, t \in Tier, n \in Tenant : ~Write(j, p, t, n)
          /\ \A j \in Key : ~(ReadFast(j) \/ ReadSlowInPlace(j)) /\ ~ReadPromote(j)
      BY DEF Write, ReadFast, ReadSlowInPlace, ReadPromote
    <3> QED BY <2>2, <2>3, <3>1, StepKinds
  <2>5. v = k
    <3>1. \A j \in Key \ {v} : blocks'[j] = blocks[j]
      BY <2>4, EvictInv
    <3> QED BY <2>1, <3>1 DEF Tier
  <2>6. CASE v \in QuotaVictims(t)
    BY <2>1, <2>4, <2>5, <2>6, QuotaVictimOver
  <2>7. CASE QuotaVictims(t) = {}
    BY <2>1, <2>4, <2>5, <2>7, QuotaFindsVictim
  <2> QED BY <2>4, <2>6, <2>7 DEF Picked
<1> QED BY <1>1, Invariance, PTL DEF Spec, QuotaFirst

----------------------------------------------------------------------------
(* Only a write pushes blocks out *)

\* z is the size of every block that some tier accepts, and fits every tier.
OfSize(z) ==
  /\ \A t \in Configured : z <= CapacityOf(t)
  /\ \A p \in Payload, t \in Configured :
       Size[p] <= EvictionThresholdOf(t) => Size[p] = z

Sized(z) == \A k \in Resident : Size[blocks[k].payload] = z

Over(m) == used[m] > EvictionThresholdOf(m)

\* Unless a write is running, a tier over its mark is the one being enforced,
\* by one block at most, and a slower tier has room for one.
Hole(z) ==
  op # "Write" =>
    \A m \in Tier : Over(m) =>
      /\ Innermost(m) /\ used[m] <= EvictionThresholdOf(m) + z
      /\ \E s \in Configured : s > m /\ used[s] + z <= EvictionThresholdOf(s)

KeepsInv == \A z \in 0..MaxSize : OfSize(z) => Sized(z) /\ Hole(z)

\* Moving a block moves its bytes, and no others.
LEMMA MovedBytes ==
  ASSUME Inv, Inv', NEW k \in Resident, Stamped(k, blocks[k].payload), NEW u \in Tier
  PROVE  used'[u] = used[u] - (IF blocks[k].tier = u THEN Size[blocks[k].payload] ELSE 0)
                            + (IF blocks'[k].tier = u THEN Size[blocks[k].payload] ELSE 0)
<1> DEFINE S == {j \in Key : blocks[j].tier = u}
           T == {j \in Key : blocks'[j].tier = u}
           p == blocks[k].payload
<1>1. /\ k \in Key /\ p \in Payload /\ blocks'[k].payload = p
      /\ \A j \in Key \ {k} : blocks'[j] = blocks[j]
  BY InTier DEF Inv, TypeOK, StoreType, Resident, Stamped
<1>2. /\ used[u] = Cardinality(ByteSet(blocks, S))
      /\ used'[u] = Cardinality(ByteSet(blocks', T))
  <2>1. used[u] = Cardinality(ByteSet(blocks, S))
    BY DEF Inv, ByteAccounting, Bytes
  <2>2. used'[u] = Bytes({j \in Key : blocks[j].tier = u})'
    BY DEF Inv, ByteAccounting
  <2>3. Bytes({j \in Key : blocks[j].tier = u})' = Cardinality(ByteSet(blocks', T))
    BY DEF Bytes
  <2> QED BY <2>1, <2>2, <2>3
<1>3. /\ S \ {k} = T \ {k} /\ S \subseteq Key /\ T \subseteq Key
      /\ k \in S <=> blocks[k].tier = u
      /\ k \in T <=> blocks'[k].tier = u
  BY <1>1
<1> HIDE DEF S, T, p
<1>4. Cardinality(ByteSet(blocks', T)) =
        Cardinality(ByteSet(blocks, S)) - (IF k \in S THEN Size[blocks[k].payload] ELSE 0)
                                        + (IF k \in T THEN Size[blocks'[k].payload] ELSE 0)
  <2>1. blocks[k].payload \in Payload /\ blocks'[k].payload \in Payload
    BY <1>1 DEF p
  <2> QED BY <1>1, <1>3, <2>1, BytesAfter
<1>5. blocks'[k].payload = blocks[k].payload
  BY <1>1 DEF p
<1> QED BY <1>2, <1>3, <1>4, <1>5

\* The bytes and marks of a tier are numbers.
LEMMA UsedType ==
  ASSUME Inv, NEW u \in Tier
  PROVE  used[u] \in Nat /\ EvictionThresholdOf(u) \in Nat
BY ThresholdType DEF Inv, TypeOK, StoreType

\* A promotion out of a slower tier, with every tier within its mark before,
\* leaves room there for the block that it may push down.
LEMMA PromotionLeavesHole ==
  ASSUME Inv, Inv', frames = {}, NEW z \in Nat, NEW k \in Resident,
         Size[blocks[k].payload] = z, Stamped(k, blocks[k].payload),
         blocks[k].tier # Fastest, blocks'[k].tier = Fastest, Fastest \in Configured,
         frames' = {Fastest}
  PROVE  Hole(z)'
<1> DEFINE s == blocks[k].tier
<1>1. s \in Configured /\ s \in Tier /\ s > Fastest /\ Fastest \in Tier
  <2>1. s \in Configured
    BY InTier DEF Inv, TypeOK, StoreType, Resident, StoredBlock
  <2>2. s \in Tier /\ Fastest \in Tier /\ Fastest <= s /\ s # Fastest
    BY <2>1, FastestType
  <2> HIDE DEF s
  <2>3. s > Fastest
    BY <2>2 DEF Tier
  <2> QED BY <2>1, <2>2, <2>3
<1>2. \A u \in Tier : used[u] <= EvictionThresholdOf(u)
  BY DEF Inv, CapacityBound
<1>3. used'[s] = used[s] - z
  <2>1. used'[s] = used[s] - z + 0
    BY <1>1, MovedBytes DEF Tier
  <2> QED BY <1>1, <2>1, UsedType
<1>4. used'[Fastest] = used[Fastest] + z
  <2>1. used'[Fastest] = used[Fastest] - 0 + z
    BY <1>1, MovedBytes DEF Tier
  <2> QED BY <1>1, <2>1, UsedType
<1>5. \A u \in Tier \ {s, Fastest} : used'[u] = used[u]
  <2>1. \A u \in Tier \ {s, Fastest} : used'[u] = used[u] - 0 + 0
    BY <1>1, MovedBytes
  <2> QED BY <2>1, UsedType
<1> HIDE DEF s
<1>6. \A m \in Tier \ {Fastest} : used'[m] <= EvictionThresholdOf(m)
  BY <1>1, <1>2, <1>3, <1>5, UsedType
<1>7. used'[Fastest] <= EvictionThresholdOf(Fastest) + z
  BY <1>1, <1>2, <1>4, UsedType
<1>8. used'[s] + z <= EvictionThresholdOf(s)
  BY <1>1, <1>2, <1>3, UsedType
<1>9. Innermost(Fastest)'
  BY <1>1 DEF Innermost, Tier
<1>10. ASSUME NEW m \in Tier, Over(m)' PROVE m = Fastest
  <2>1. used'[m] > EvictionThresholdOf(m) /\ used'[m] \in Nat /\ EvictionThresholdOf(m) \in Nat
    BY <1>10, ThresholdType DEF Over, Inv, TypeOK, StoreType
  <2> QED BY <1>6, <2>1
<1> QED BY <1>1, <1>7, <1>8, <1>9, <1>10 DEF Hole

\* A turn of the eviction loop outside a write: the victim finds a tier below,
\* and either it fills the hole or the hole is further down.
LEMMA EvictionKeeps ==
  ASSUME Inv, Inv', NEW z \in Nat, OfSize(z), Sized(z), Hole(z), op # "Write",
         NEW t \in frames, NEW v \in Key, Evicting(t), blocks[v].tier = t, Evict(v, t)
  PROVE  /\ Stamped(v, blocks[v].payload) /\ v \in Resident
         /\ op' = op /\ Hole(z)'
<1> DEFINE n == NextSlowerConfigured(t)
<1>1. /\ v \in Resident /\ t \in Configured /\ t \in Tier /\ UNCHANGED <<op, todo, ret>>
      /\ Size[blocks[v].payload] = z
  <2>1. v \in Resident /\ t \in Configured /\ UNCHANGED <<op, todo, ret>>
    BY EvictEffect
  <2> QED BY <2>1, FastestType DEF Sized
<1>2. Innermost(t) /\ Over(t)
  BY DEF Evicting, Over
<1>3. PICK s \in Configured : s > t /\ used[s] + z <= EvictionThresholdOf(s)
  BY <1>1, <1>2 DEF Hole
<1>4. used[t] <= EvictionThresholdOf(t) + z
  BY <1>1, <1>2 DEF Hole
<1>5. n \in Configured /\ n <= s /\ n > t /\ n \in Tier /\ s \in Tier /\ n # NoTier
  BY <1>1, <1>3, NextSlowerLeast, NextSlowerType, FastestType
<1>6. Fits(v, t)
  BY <1>1, <1>5 DEF OfSize, Fits
<1>7. /\ Stamped(v, blocks[v].payload) /\ blocks'[v].tier = n
      /\ frames' = frames \cup {n}
  BY <1>6, EvictEffect
<1> HIDE DEF n
<1>8. n \notin frames /\ \A u \in frames : u <= t
  BY <1>1, <1>2, <1>5 DEF Innermost, Tier
<1>9. \A m \in Tier \ {t} : used[m] <= EvictionThresholdOf(m)
  <2> SUFFICES ASSUME NEW m \in Tier \ {t}, ~(used[m] <= EvictionThresholdOf(m)) PROVE FALSE
    OBVIOUS
  <2>1. Over(m)
    BY UsedType DEF Over
  <2>2. Innermost(m)
    BY <2>1 DEF Hole
  <2> QED BY <1>1, <1>2, <2>2 DEF Innermost, Tier
<1>10. used'[t] = used[t] - z
  <2>1. used'[t] = used[t] - z + 0
    BY <1>1, <1>5, <1>7, MovedBytes DEF Tier
  <2> QED BY <1>1, <2>1, UsedType
<1>11. used'[n] = used[n] + z
  <2>1. used'[n] = used[n] - 0 + z
    BY <1>1, <1>5, <1>7, MovedBytes DEF Tier
  <2> QED BY <1>5, <2>1, UsedType
<1>12. \A u \in Tier \ {t, n} : used'[u] = used[u]
  <2>1. \A u \in Tier \ {t, n} : used'[u] = used[u] - 0 + 0
    BY <1>1, <1>7, MovedBytes
  <2> QED BY <2>1, UsedType
<1>13. \A m \in Tier \ {n} : used'[m] <= EvictionThresholdOf(m)
  BY <1>1, <1>4, <1>9, <1>10, <1>12, UsedType
<1>14. used'[n] <= EvictionThresholdOf(n) + z
  <2>1. n \in Tier \ {t}
    BY <1>1, <1>5 DEF Tier
  <2>2. used[n] <= EvictionThresholdOf(n) /\ used[n] \in Nat /\ EvictionThresholdOf(n) \in Nat
    BY <1>9, <2>1, UsedType
  <2> QED BY <1>11, <2>2
<1>15. Innermost(n)'
  BY <1>1, <1>5, <1>7, <1>8 DEF Innermost, Tier, Inv, TypeOK, ControlType
<1>16. ASSUME NEW m \in Tier, Over(m)'
       PROVE  m = n /\ s > n /\ used'[s] + z <= EvictionThresholdOf(s)
  <2>1. used'[m] > EvictionThresholdOf(m) /\ used'[m] \in Nat /\ EvictionThresholdOf(m) \in Nat
    BY <1>16, ThresholdType DEF Over, Inv, TypeOK, StoreType
  <2>2. m = n
    BY <1>13, <2>1
  <2>3. s # n
    BY <1>3, <1>5, <1>11, <2>1, <2>2, UsedType
  <2>4. used'[s] = used[s]
    BY <1>1, <1>3, <1>5, <1>12, <2>3 DEF Tier
  <2> QED BY <1>3, <1>5, <2>2, <2>3, <2>4 DEF Tier
<1>17. Hole(z)'
  BY <1>5, <1>14, <1>15, <1>16 DEF Hole
<1> QED BY <1>1, <1>7, <1>17

\* A quiet step leaves the frames of enforcement alone, starts or ends a call,
\* or leaves a tier that is within its mark.
LEMMA QuietHole ==
  ASSUME Inv, Inv', Quiet, NEW z \in Nat, Hole(z)
  PROVE  Hole(z)'
<1>1. used' = used
  BY QuietEffect
<1>2. CASE frames = {} \/ frames' = {}
  <2>1. \A u \in Tier : used'[u] <= EvictionThresholdOf(u) /\ used'[u] \in Nat
    BY <1>1, <1>2, UsedType DEF Inv, CapacityBound
  <2>2. \A m \in Tier : ~Over(m)'
    BY <2>1, ThresholdType DEF Over
  <2> QED BY <2>2 DEF Hole
<1>3. CASE frames # {} /\ frames' # {}
  <2>1. op # "idle"
    BY <1>3 DEF Inv, TypeOK, ControlType
  <2>2. op' # "idle"
    BY <1>3 DEF Inv, TypeOK, ControlType
  <2>3. op' = op
    BY <2>1, <2>2, QuietControl
  <2>4. CASE frames' = frames
    BY <1>1, <2>3, <2>4 DEF Hole, Over, Innermost
  <2>5. ASSUME NEW t \in Tier, LeaveEnforce(t) PROVE Hole(z)'
    <3>1. Innermost(t) /\ used[t] <= EvictionThresholdOf(t) /\ frames' = frames \ {t}
      BY <2>2, <2>5 DEF LeaveEnforce, Return
    <3>2. \A m \in Tier : Innermost(m) => m = t
      BY <3>1 DEF Innermost, Tier
    <3>3. op # "Write" => \A m \in Tier : ~Over(m)
      <4>1. ~Over(t)
        BY <3>1, UsedType DEF Over
      <4> QED BY <3>2, <4>1 DEF Hole
    <3> QED BY <1>1, <2>3, <3>3 DEF Hole, Over
  <2>6. CASE ~\E t \in Tier : LeaveEnforce(t)
    <3>1. CASE S3SmallToMain \/ S3MainSecondChance
      BY <2>4, <3>1, RequeueEffect
    <3>2. CASE S3SmallStale \/ S3MainStale \/ UNCHANGED vars
      BY <2>4, <3>2 DEF S3SmallStale, S3MainStale, vars, control
    <3>3. CASE FinishRead \/ FinishCall \/ PrefetchSkip
      BY <1>3, <3>3 DEF FinishRead, FinishCall, PrefetchSkip
    <3> QED BY <2>1, <2>6, <3>1, <3>2, <3>3
         DEF Quiet, WriteRejected, ReadMiss, Prefetch, EnforceCapacity
  <2> QED BY <2>5, <2>6
<1> QED BY <1>2, <1>3

\* The sizes and the hole survive every step, and no step of a read, of a
\* prefetch or of enforcement on its own loses a block.
LEMMA KeepsStep ==
  ASSUME Inv, Inv', NEW z \in Nat, OfSize(z), Sized(z), Hole(z), [Next]_vars
  PROVE  /\ Sized(z)' /\ Hole(z)'
         /\ op # "Write" /\ op' # "Write" => Resident \subseteq Resident'
<1> DEFINE Result == /\ Sized(z)' /\ Hole(z)'
                     /\ op # "Write" /\ op' # "Write" => Resident \subseteq Resident'
<1>0. StoreType /\ (op = "idle" => frames = {}) /\ \A k \in Resident : k \in Key
  BY DEF Inv, TypeOK, ControlType, Resident
<1>1. ASSUME NEW k \in Resident, Stamped(k, blocks[k].payload)
      PROVE  Sized(z)' /\ Resident' = Resident
  <2>1. Resident' = Resident
    BY <1>0, <1>1, ResidentAfter
  <2>2. \A j \in Resident : blocks'[j].payload = blocks[j].payload
    BY <1>0, <1>1 DEF Stamped
  <2> QED BY <2>1, <2>2 DEF Sized
<1>2. CASE Quiet
  <2>1. Settled
    BY <1>2, QuietEffect
  <2>2. Resident' = Resident
    BY <2>1 DEF Settled, Resident
  <2>3. Sized(z)'
    BY <1>0, <2>1, <2>2 DEF Settled, Sized
  <2> QED BY <1>2, <2>2, <2>3, QuietHole
<1>3. ASSUME NEW k \in Key, NEW p \in Payload, NEW t \in Tier, NEW n \in Tenant,
             Write(k, p, t, n)
      PROVE  Result
  <2>1. /\ ResolveConfiguredTier(t) \in Configured
        /\ Size[p] <= EvictionThresholdOf(ResolveConfiguredTier(t))
        /\ Stamped(k, p) /\ op' = "Write"
    BY <1>3, WriteEffect
  <2>2. Size[p] = z
    BY <2>1 DEF OfSize
  <2>3. Resident' = Resident \cup {k} /\ blocks'[k].payload = p
    BY <1>0, <2>1, ResidentAfter DEF Stamped
  <2>4. ASSUME NEW j \in Resident' PROVE Size[blocks'[j].payload] = z
    BY <1>0, <2>1, <2>2, <2>3 DEF Stamped, Sized
  <2>5. Sized(z)'
    BY <2>4 DEF Sized
  <2> QED BY <2>1, <2>5 DEF Hole
<1>4. ASSUME NEW k \in Key, ReadFast(k) \/ ReadSlowInPlace(k) PROVE Result
  <2>1. /\ k \in Resident /\ Stamped(k, blocks[k].payload) /\ blocks'[k].tier = blocks[k].tier
    BY <1>4, TouchEffect
  <2>2. frames' = {}
    BY <1>4 DEF ReadFast, ReadSlowInPlace, Return
  <2>3. \A m \in Tier : ~Over(m)'
    <3>1. \A u \in Tier : used'[u] <= EvictionThresholdOf(u) /\ used'[u] \in Nat
      BY <2>2 DEF Inv, CapacityBound, TypeOK, StoreType
    <3> QED BY <3>1, ThresholdType DEF Over
  <2> QED BY <1>1, <2>1, <2>3 DEF Hole
<1>5. ASSUME NEW k \in Key, ReadPromote(k) PROVE Result
  <2>1. /\ k \in Resident /\ Stamped(k, blocks[k].payload) /\ blocks'[k].tier = Fastest
        /\ Fastest \in Configured
    BY <1>5, PromoteEffect
  <2>2. /\ frames = {} /\ frames' = {Fastest} /\ blocks[k].tier # Fastest
    BY <1>0, <1>5 DEF ReadPromote, Call
  <2>3. Hole(z)'
    BY <2>1, <2>2, PromotionLeavesHole DEF Sized
  <2> QED BY <1>1, <2>1, <2>3
<1>6. CASE PrefetchPlace
  <2>1. PICK k \in Resident : k = Head(todo)
    BY <1>6, PrefetchEffect
  <2>2. /\ Stamped(k, blocks[k].payload) /\ blocks'[k].tier = Fastest
        /\ Fastest \in Configured /\ frames = {} /\ frames' = {Fastest}
    BY <1>6, <2>1, PrefetchEffect
  <2>3. blocks[k].tier # Fastest
    BY <1>6, <2>1 DEF PrefetchPlace, Prefetchable
  <2>4. Hole(z)'
    BY <2>2, <2>3, PromotionLeavesHole DEF Sized
  <2> QED BY <1>1, <2>2, <2>4
<1>7. ASSUME NEW t \in frames, NEW v \in Key,
             Evicting(t), blocks[v].tier = t, Evict(v, t)
      PROVE  Result
  <2>1. CASE op # "Write"
    <3>1. Stamped(v, blocks[v].payload) /\ v \in Resident /\ Hole(z)'
      BY <1>7, <2>1, EvictionKeeps
    <3> QED BY <1>1, <3>1
  <2>2. CASE op = "Write"
    <3>1. /\ op' = "Write" /\ v \in Resident
          /\ Removed(v) \/ Stamped(v, blocks[v].payload)
      BY <1>7, <2>2, EvictEffect
    <3>2. Sized(z)'
      <4>1. ASSUME Removed(v) PROVE Sized(z)'
        <5>1. Resident' = Resident \ {v}
          BY <1>0, <4>1, ResidentAfter
        <5>2. \A j \in Resident' : blocks'[j].payload = blocks[j].payload
          BY <1>0, <4>1, <5>1 DEF Removed
        <5> QED BY <5>1, <5>2 DEF Sized
      <4> QED BY <1>1, <3>1, <4>1
    <3> QED BY <2>2, <3>1, <3>2 DEF Hole
  <2> QED BY <2>1, <2>2
<1> QED BY <1>2, <1>3, <1>4, <1>5, <1>6, <1>7, StepKinds

\* Reading is safe: with blocks of one size, a block is lost only while a
\* Write runs, whatever was read or prefetched before, in whatever order, and
\* whatever the weights of the tenants.  Promotion and demotion rearrange.
THEOREM OnlyWritesDrop == Spec => ReadsKeepBlocks
<1>1. Init => KeepsInv
  <2> SUFFICES ASSUME Init, NEW z \in 0..MaxSize PROVE Sized(z) /\ Hole(z)
    BY DEF KeepsInv
  <2>1. Resident = {}
    BY DEF Init, Resident, NoBlock
  <2>2. \A m \in Tier : ~Over(m)
    BY ThresholdType DEF Init, Over
  <2> QED BY <2>1, <2>2 DEF Sized, Hole
<1>2. MaxSize \in Nat
  BY PayloadAssumption
<1>3. Inv /\ Inv' /\ KeepsInv /\ [Next]_vars => KeepsInv'
  <2> SUFFICES ASSUME Inv, Inv', KeepsInv, [Next]_vars, NEW z \in 0..MaxSize, OfSize(z)
               PROVE  Sized(z)' /\ Hole(z)'
    BY DEF KeepsInv, OfSize, CapacityOf, EvictionThresholdOf
  <2>1. z \in Nat /\ Sized(z) /\ Hole(z)
    BY <1>2 DEF KeepsInv
  <2> QED BY <2>1, KeepsStep
<1>4. Inv /\ Inv' /\ KeepsInv /\ [Next]_vars => [KeepsBlocks]_vars
  <2> SUFFICES ASSUME Inv, Inv', KeepsInv, [Next]_vars, OneSize, op # "Write", op' # "Write"
               PROVE  Resident \subseteq Resident'
    BY DEF KeepsBlocks
  <2>1. PICK z \in 0..MaxSize : OfSize(z)
    BY DEF OneSize, OfSize
  <2>2. z \in Nat /\ Sized(z) /\ Hole(z)
    BY <1>2, <2>1 DEF KeepsInv
  <2> QED BY <2>1, <2>2, KeepsStep
<1> QED BY <1>1, <1>3, <1>4, Invariance, PTL DEF Spec, ReadsKeepBlocks

=============================================================================
