--------------------------- MODULE MCTieredStorage ---------------------------
(* Small instances of TieredStorage for TLC. *)
EXTENDS TieredStorageCalls, TLC

CONSTANTS small, big, wide, huge

\* Payload sizes.  With HBM at 10 bytes the small queue has a budget of one
\* byte and the high-water mark is 9: one big block fits, two do not, and a
\* huge one fits NVMe only.  A wide one fits HBM and NVMe but not DRAM.
Sizes == (small :> 1 @@ big :> 5 @@ wide :> 7 @@ huge :> 11)
SizeOfPayload == [p \in Payload |-> Sizes[p]]

KeySymmetry == Permutations(Key)

\* DRAM takes one big block, NVMe two big ones or a huge one.
Capacities == <<10, 6, 14>>
CapacityOfTier == [t \in Tier |-> Capacities[t + 1]]
AllTiers == {0, 1, 2}
HbmDram == {0, 1}

\* With a high-water mark of one half, DRAM takes one big block, and HBM one
\* big block or up to five small ones: several blocks share the main queue.
EqualCapacities == [t \in Tier |-> 10]

NoTenants == {}
OneTenant == {0}
TwoTenants == {0, 1}
EqualWeights == [n \in Tenant |-> 1]

\* Only tenant 1 has a weight: tenant 0 owns no share of any tier.
OnlyTenantOne == {1}
===============================================================================
