------------------------------ MODULE Scheduler ------------------------------
(***************************************************************************)
(* The cross-node index and the routing of requests                        *)
(* (scheduler/scheduler.cpp).  Each index operation is atomic under the    *)
(* lock of its shard, so Route, which copies the cluster view and then     *)
(* looks its keys up one after the other, runs against an index and a      *)
(* cluster view that change between its steps: one step per lock.          *)
(***************************************************************************)
EXTENDS Naturals, Sequences, FiniteSets

CONSTANTS
  Key,          \* block keys
  Nodes,        \* number of nodes; NodeIds are ordered
  Views,        \* bound: cluster states, functions on the nodes they list;
                \* occupancy_ratio and high_water_ratio are numbers
  MaxPrefix     \* bound: prefix keys of a request

Node == 1..Nodes
NoNode == 0

ASSUME SchedulerAssumption ==
  /\ Nodes \in Nat /\ MaxPrefix \in Nat
  /\ \A v \in Views :
       /\ DOMAIN v \subseteq Node
       /\ \A n \in DOMAIN v : /\ v[n].reachable \in BOOLEAN
                              /\ v[n].load \in Nat /\ v[n].high_water \in Nat

VARIABLES
  prefix_reuse_enabled,  \* config_, fixed at construction
  holders,   \* holders of the shards: a function on the registered keys
  cluster,   \* cluster_: a function on the nodes it lists
  pc,        \* where the running Route is
  prefix,    \* prefix keys of its request
  snapshot,  \* its copy of cluster_
  looked,    \* number of keys looked up so far
  coverage,  \* coverage of the nodes it has met
  decision,  \* the last RouteDecision
  during     \* history: for each key, the nodes that held it all the time
             \* and at some time since the Route began

indexVars == <<holders, during>>
routeVars == <<pc, prefix, snapshot, looked, coverage>>
vars == <<prefix_reuse_enabled, holders, cluster, routeVars, decision, during>>

NoView == [n \in {} |-> 0]

Decision(node, reuse, recompute) ==
  [node |-> node, reuse_prefix |-> reuse, recompute |-> recompute]

Init ==
  /\ prefix_reuse_enabled \in BOOLEAN
  /\ holders = [k \in {} |-> {}]
  /\ cluster = NoView
  /\ pc = "idle" /\ prefix = <<>> /\ snapshot = cluster
  /\ looked = 0 /\ coverage = [n \in {} |-> 0]
  /\ decision = Decision(NoNode, FALSE, FALSE)
  /\ during = [k \in Key |-> [always |-> {}, ever |-> {}]]

----------------------------------------------------------------------------
(* CrossNodeIndex *)

Lookup(k) == IF k \in DOMAIN holders THEN holders[k] ELSE {}

WithHolders(k, ns) ==
  [j \in DOMAIN holders \cup {k} |-> IF j = k THEN ns ELSE holders[j]]

\* Nothing happens if the node holds the key already.
Register(k, n) ==
  /\ n \notin Lookup(k)
  /\ holders' = WithHolders(k, Lookup(k) \cup {n})
  /\ during' = [during EXCEPT ![k].ever = @ \cup {n}]
  /\ UNCHANGED <<prefix_reuse_enabled, cluster, routeVars, decision>>

\* Nothing happens if the node does not hold the key.
Unregister(k, n) ==
  /\ n \in Lookup(k)
  /\ holders' = IF Lookup(k) = {n}
                  THEN [j \in DOMAIN holders \ {k} |-> holders[j]]
                  ELSE WithHolders(k, Lookup(k) \ {n})
  /\ during' = [during EXCEPT ![k].always = @ \ {n}]
  /\ UNCHANGED <<prefix_reuse_enabled, cluster, routeVars, decision>>

UpdateClusterState(state) ==
  /\ cluster' = state
  /\ UNCHANGED <<prefix_reuse_enabled, indexVars, routeVars, decision>>

----------------------------------------------------------------------------
(* Placement and failover *)

\* A node is overloaded at the mark of its own.
Overloaded(state, n) == state[n].load >= state[n].high_water

Reachable(state) == {n \in DOMAIN state : state[n].reachable}

\* Least load, then least id; NoNode if there is none.
PickLeastLoaded(state, ns) ==
  IF ns = {} THEN NoNode
  ELSE CHOOSE n \in ns :
         \A m \in ns : \/ state[n].load < state[m].load
                       \/ state[n].load = state[m].load /\ n <= m

\* Mutant: the high-water marks are not looked at.
ChoosePlacementNode_AnyLoad(state) == PickLeastLoaded(state, Reachable(state))

ChoosePlacementNode(state) ==
  LET below == {n \in Reachable(state) : ~Overloaded(state, n)}
  IN  PickLeastLoaded(state, IF below = {} THEN Reachable(state) ELSE below)

FailoverHolders(k, state) == Lookup(k) \cap Reachable(state)

ResolveOnFailure(k, state) ==
  /\ pc = "idle"
  /\ decision' =
       IF FailoverHolders(k, state) = {}
         THEN Decision(NoNode, FALSE, TRUE)
         ELSE Decision(PickLeastLoaded(state, FailoverHolders(k, state)), TRUE, FALSE)
  /\ prefix' = <<k>> /\ snapshot' = state
  /\ pc' = "resolved"
  /\ during' = [j \in Key |-> [always |-> Lookup(j), ever |-> Lookup(j)]]
  /\ UNCHANGED <<prefix_reuse_enabled, holders, cluster, looked, coverage>>

----------------------------------------------------------------------------
(* Route *)

RouteBegins(keys) ==
  /\ pc = "idle"
  /\ pc' = IF prefix_reuse_enabled THEN "lookup" ELSE "decide"
  /\ prefix' = keys /\ snapshot' = cluster
  /\ looked' = 0 /\ coverage' = [n \in {} |-> 0]
  /\ during' = [k \in Key |-> [always |-> Lookup(k), ever |-> Lookup(k)]]
  /\ UNCHANGED <<prefix_reuse_enabled, holders, cluster, decision>>

\* Mutant: counts a node only for the first key it is met with.
Counted_Once(ns) ==
  [n \in DOMAIN coverage \cup ns |-> 1]

Counted(ns) ==
  [n \in DOMAIN coverage \cup ns |->
     (IF n \in DOMAIN coverage THEN coverage[n] ELSE 0)
       + (IF n \in ns THEN 1 ELSE 0)]

RouteLooksUp ==
  /\ pc = "lookup" /\ looked < Len(prefix)
  /\ looked' = looked + 1
  /\ coverage' = Counted(Lookup(prefix[looked + 1]))
  /\ UNCHANGED <<prefix_reuse_enabled, indexVars, cluster, pc, prefix, snapshot,
                 decision>>

\* A node the cluster view does not list counts as reachable.
MayReach(n) == n \in DOMAIN snapshot => snapshot[n].reachable

\* The first of the best in the order of the map.
Best ==
  {n \in DOMAIN coverage :
     /\ MayReach(n)
     /\ \A m \in DOMAIN coverage :
          MayReach(m) => \/ coverage[n] > coverage[m]
                         \/ coverage[n] = coverage[m] /\ n <= m}

RouteDecides ==
  /\ \/ pc = "decide"
     \/ pc = "lookup" /\ looked = Len(prefix)
  /\ decision' = IF Best = {}
                   THEN Decision(ChoosePlacementNode(snapshot), FALSE, FALSE)
                   ELSE Decision(CHOOSE n \in Best : TRUE, TRUE, FALSE)
  /\ pc' = "routed"
  /\ UNCHANGED <<prefix_reuse_enabled, indexVars, cluster, prefix, snapshot,
                 looked, coverage>>

\* The call returns; what it held is gone.
Return ==
  /\ pc \in {"routed", "resolved"} /\ pc' = "idle"
  /\ prefix' = <<>> /\ snapshot' = NoView
  /\ looked' = 0 /\ coverage' = [n \in {} |-> 0]
  /\ decision' = Decision(NoNode, FALSE, FALSE)
  /\ during' = [k \in Key |-> [always |-> {}, ever |-> {}]]
  /\ UNCHANGED <<prefix_reuse_enabled, holders, cluster>>

Prefixes == UNION {[1..n -> Key] : n \in 0..MaxPrefix}

Next ==
  \/ \E k \in Key, n \in Node : Register(k, n) \/ Unregister(k, n)
  \/ \E state \in Views : UpdateClusterState(state)
  \/ \E k \in Key, state \in Views : ResolveOnFailure(k, state)
  \/ \E keys \in Prefixes : RouteBegins(keys)
  \/ RouteLooksUp \/ RouteDecides \/ Return

Spec == Init /\ [][Next]_vars

----------------------------------------------------------------------------
(* Properties *)

Always(n) == {i \in DOMAIN prefix : n \in during[prefix[i]].always}
Ever(n) == {i \in DOMAIN prefix : n \in during[prefix[i]].ever}

\* However the index changes while Route looks its keys up, it reuses a
\* prefix if some reachable node held a prefix block all the time, the node
\* it picks held a prefix block at some time, and no reachable node kept
\* more prefix blocks throughout than the picked one ever had.
RouteReuses ==
  pc = "routed" /\ prefix_reuse_enabled =>
    IF decision.reuse_prefix
      THEN /\ Ever(decision.node) # {} /\ MayReach(decision.node)
           /\ \A n \in Node : MayReach(n) =>
                Cardinality(Always(n)) <= Cardinality(Ever(decision.node))
      ELSE \A n \in Node : MayReach(n) => Always(n) = {}

\* The node is not below the threshold of its own (requirement 4.4).
AtMark(n) == snapshot[n].load >= snapshot[n].high_water

\* Without reuse, a node at its own high-water mark is picked only if every
\* reachable node is at its own, even when it is the least loaded of all, and
\* no node only if none is reachable; among the nodes that may be picked it is
\* one of least load.
PlacementAvoidsOverload ==
  pc = "routed" /\ ~decision.reuse_prefix =>
    LET n == decision.node
    IN  IF Reachable(snapshot) = {} THEN n = NoNode
        ELSE /\ n \in Reachable(snapshot)
             /\ AtMark(n) => \A m \in Reachable(snapshot) : AtMark(m)
             /\ \A m \in Reachable(snapshot) :
                  (AtMark(m) => AtMark(n)) => snapshot[n].load <= snapshot[m].load
=============================================================================
