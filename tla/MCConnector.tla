----------------------------- MODULE MCConnector -----------------------------
(* Small instances of Connector for TLC: HBM and DRAM hold one block each,   *)
(* and the largest payload fits neither.                                     *)
EXTENDS Connector

CONSTANTS huge

SizeOfPayload == [p \in Payload |-> IF p = huge THEN 11 ELSE 5]
CapacityOfTier == [t \in 0..2 |-> 5]
HbmDram == {0, 1}
Tenants == 0..2
Weights == [n \in Tenants |-> 1]
NoWeights == {}
Symmetry == Permutations(Requested) \cup Permutations(Thread)

BudgetsUpToCycle == 0..(Cardinality(Key) + 1)
==============================================================================
