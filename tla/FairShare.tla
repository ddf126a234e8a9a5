----------------------------- MODULE FairShare -----------------------------
(***************************************************************************)
(* Scheduler::AllocateFairShare (scheduler/scheduler.cpp): weighted        *)
(* max-min fair shares of a capacity by water filling.  One pass of the    *)
(* while loop is one step.                                                 *)
(*                                                                         *)
(* Weights are doubles in the code; here they are natural numbers, and the *)
(* proportional share is an exact division, rounded down.  Below 2^53 the  *)
(* product and the quotient the code computes round down to the same       *)
(* number.  Tenants are numbered in the order of the demands vector, each  *)
(* once.                                                                   *)
(***************************************************************************)
EXTENDS Naturals, FiniteSets

CONSTANTS
  Tenants,    \* number of demands
  MaxDemand,  \* bound: demand_bytes
  MaxWeight,  \* bound: weight
  MaxTotal    \* bound: total_capacity_bytes

ASSUME FairShareAssumption ==
  /\ Tenants \in Nat /\ MaxDemand \in Nat
  /\ MaxWeight \in Nat /\ MaxTotal \in Nat

VARIABLES
  demand,     \* demand_bytes of each tenant
  weight,     \* weight of each tenant
  total,      \* total_capacity_bytes
  granted,    \* granted of each item; 0 for a tenant that is no item
  remaining,  \* remaining
  returned    \* whether the loop has ended

inputs == <<demand, weight, total>>
shareVars == <<inputs, granted, remaining, returned>>

Tenant == 1..Tenants

\* A sum is a number of units, those of the members told apart.
Units(f, S) == UNION {{t} \X (1..f[t]) : t \in S}
Sum(f, S) == Cardinality(Units(f, S))

ShareInit ==
  /\ demand \in [Tenant -> 0..MaxDemand]
  /\ weight \in [Tenant -> 0..MaxWeight]
  /\ total \in 0..MaxTotal
  /\ granted = [t \in Tenant |-> 0]
  /\ remaining = total
  /\ returned = FALSE

Items == {t \in Tenant : demand[t] > 0 /\ weight[t] > 0}
Unmet == {t \in Items : granted[t] < demand[t]}

Least(a, b) == IF a < b THEN a ELSE b

ShareOf(t) == (remaining * weight[t]) \div Sum(weight, Unmet)

Give == [t \in Tenant |->
           IF t \in Unmet THEN Least(demand[t] - granted[t], ShareOf(t)) ELSE 0]

Looping == ~returned /\ remaining > 0 /\ Unmet # {}

\* A pass that hands out proportional shares.
ShareOut ==
  LET distributed == Sum(Give, Tenant)
  IN  /\ Looping /\ distributed > 0
      /\ granted' = [t \in Tenant |-> granted[t] + Give[t]]
      /\ remaining' = remaining - distributed
      /\ UNCHANGED <<inputs, returned>>

\* Mutant: the left-over bytes all go to the first unmet tenant.
Lucky_First == {t \in Unmet : \A u \in Unmet : t <= u}

\* The first tenants in order, one byte each, as far as the rest goes.
Lucky == {t \in Unmet : Cardinality({u \in Unmet : u < t}) < remaining}

\* Mutant: the rest is never handed out.
ByteByByte_None ==
  /\ Looping /\ Sum(Give, Tenant) = 0
  /\ UNCHANGED shareVars

\* A pass in which every share rounds to zero: single bytes in turn.
ByteByByte ==
  /\ Looping /\ Sum(Give, Tenant) = 0
  /\ granted' = [t \in Tenant |-> IF t \in Lucky THEN granted[t] + 1
                                                 ELSE granted[t]]
  /\ remaining' = remaining - Cardinality(Lucky)
  /\ UNCHANGED <<inputs, returned>>

\* Mutant: spare capacity is not offered again.
LoopEnds_OnePass ==
  /\ ~returned /\ (remaining < total \/ remaining = 0 \/ Unmet = {})
  /\ returned' = TRUE
  /\ UNCHANGED <<inputs, granted, remaining>>

LoopEnds ==
  /\ ~returned /\ (remaining = 0 \/ Unmet = {})
  /\ returned' = TRUE
  /\ UNCHANGED <<inputs, granted, remaining>>

ShareNext == ShareOut \/ ByteByByte \/ LoopEnds

ShareSpec == ShareInit /\ [][ShareNext]_shareVars

----------------------------------------------------------------------------
(* Properties *)

\* No byte is handed out twice or lost, the unsigned remaining does not pass
\* below zero, and no tenant gets more than it asked for, after every pass.
NoOvercommit ==
  /\ remaining \in Nat
  /\ Sum(granted, Tenant) + remaining = total
  /\ \A t \in Tenant : granted[t] <= demand[t]

\* Spare capacity is used up: at the end every positive demand with a
\* positive weight is met or nothing is left.
WorkConserving ==
  returned => remaining = 0 \/ \A t \in Items : granted[t] = demand[t]

\* The capacity is neither over-committed nor left unused.
SharesSound == NoOvercommit /\ WorkConserving

\* With equal weights no tenant has more than one byte over one whose demand
\* is not met, itself met or not (max-min fairness up to the last byte).
EqualWeightFair ==
  returned /\ (\A t, u \in Items : weight[t] = weight[u])
    => \A t \in Unmet, u \in Items : granted[u] <= granted[t] + 1

\* The loop ends.
Returns == <>returned
=============================================================================
