--------------------------- MODULE SchedulerProofs ---------------------------
(***************************************************************************)
(* Safety of the routing for any keys, nodes, cluster views and prefixes:  *)
(* what Route promises although the index changes under it, and where a    *)
(* request without reuse is placed.                                        *)
(***************************************************************************)
EXTENDS Scheduler, FiniteSetTheorems, SequenceTheorems, NaturalsInduction, TLAPS

ViewOK(view) ==
  DOMAIN view \subseteq Node /\ \A n \in DOMAIN view : view[n].load \in Nat

TypeOK ==
  /\ prefix_reuse_enabled \in BOOLEAN
  /\ \A k \in Key : Lookup(k) \subseteq Node
  /\ ViewOK(cluster) /\ ViewOK(snapshot)
  /\ prefix \in Seq(Key) /\ looked \in 0..Len(prefix)
  /\ DOMAIN coverage \subseteq Node /\ coverage \in [DOMAIN coverage -> Nat]
  /\ during \in [Key -> [always : SUBSET Node, ever : SUBSET Node]]

\* Where Route is: nothing is counted before it begins, and with reuse it
\* decides after the last key only.
Phases ==
  /\ pc \in {"idle", "lookup", "decide", "routed", "resolved"}
  /\ pc = "idle" => looked = 0 /\ DOMAIN coverage = {}
  /\ pc = "decide" => ~prefix_reuse_enabled
  /\ pc = "routed" /\ prefix_reuse_enabled => looked = Len(prefix)

\* The holders of a key lie between those that held it all the time and those
\* that held it at some time of the running Route.
Witnessed ==
  pc # "idle" =>
    \A k \in Key : during[k].always \subseteq Lookup(k) /\ Lookup(k) \subseteq during[k].ever

HeldAlways(n) == {i \in 1..looked : n \in during[prefix[i]].always}
HeldEver(n) == {i \in 1..looked : n \in during[prefix[i]].ever}

\* The coverage of a node lies between the keys looked up so far that it held
\* all the time and those it held at some time.
Counts ==
  \A n \in Node :
    /\ n \in DOMAIN coverage =>
         /\ coverage[n] >= 1
         /\ Cardinality(HeldAlways(n)) <= coverage[n]
         /\ coverage[n] <= Cardinality(HeldEver(n))
    /\ n \notin DOMAIN coverage => HeldAlways(n) = {}

\* The decision is the one its coverage and its view of the cluster call for.
Decided ==
  pc = "routed" =>
    \/ \E n \in Best : decision = Decision(n, TRUE, FALSE)
    \/ Best = {} /\ decision = Decision(ChoosePlacementNode(snapshot), FALSE, FALSE)

Inv == TypeOK /\ Phases /\ Witnessed /\ Counts /\ Decided

----------------------------------------------------------------------------
(* Best and least loaded nodes *)

\* A non-empty set of numbers has a least member.
LEMMA LeastNat ==
  ASSUME NEW S \in SUBSET Nat, S # {}
  PROVE  \E n \in S : \A m \in S : n <= m
<1>1. PICK n \in S : \A m \in S : ~(<<m, n>> \in OpToRel(<, Nat))
  BY NatLessThanWellFounded, WFMin
<1>2. \A m \in S : ~(m < n)
  BY <1>1 DEF OpToRel
<1>. QED BY <1>2

\* A non-empty set of numbers has a member of least rank, and least among the
\* members of that rank.
LEMMA LeastRank ==
  ASSUME NEW S \in SUBSET Nat, S # {}, NEW rank \in [S -> Nat]
  PROVE  \E n \in S : \A m \in S : \/ rank[n] < rank[m]
                                   \/ rank[n] = rank[m] /\ n <= m
<1>. DEFINE ranks == {rank[n] : n \in S}
<1>1. ranks \in SUBSET Nat /\ ranks # {}
  OBVIOUS
<1>2. PICK a \in ranks : \A b \in ranks : a <= b
  <2>. HIDE DEF ranks
  <2>. QED BY <1>1, LeastNat
<1>. DEFINE first == {n \in S : rank[n] = a}
<1>3. first \in SUBSET Nat /\ first # {}
  BY <1>2
<1>4. PICK n \in first : \A m \in first : n <= m
  <2>. HIDE DEF first
  <2>. QED BY <1>3, LeastNat
<1>5. ASSUME NEW m \in S
      PROVE  rank[n] < rank[m] \/ (rank[n] = rank[m] /\ n <= m)
  <2>1. rank[n] = a /\ rank[m] \in ranks /\ rank[m] \in Nat /\ a \in Nat
    BY <1>1, <1>2, <1>4
  <2>2. a <= rank[m]
    BY <1>2, <2>1
  <2>3. rank[m] = a => n <= m
    BY <1>4
  <2>. QED BY <2>1, <2>2, <2>3
<1>. QED BY <1>4, <1>5

\* PickLeastLoaded returns one of the nodes it is given, of least load.
LEMMA PickLeast ==
  ASSUME NEW view, ViewOK(view), NEW ns \in SUBSET DOMAIN view, ns # {}
  PROVE  /\ PickLeastLoaded(view, ns) \in ns
         /\ \A m \in ns : view[PickLeastLoaded(view, ns)].load <= view[m].load
<1>. DEFINE rank == [n \in ns |-> view[n].load]
            least(n) == \A m \in ns : \/ view[n].load < view[m].load
                                      \/ view[n].load = view[m].load /\ n <= m
<1>1. ns \in SUBSET Nat /\ \A n \in ns : view[n].load \in Nat
  BY SchedulerAssumption DEF ViewOK, Node
<1>2. rank \in [ns -> Nat]
  BY <1>1
<1>3. \E n \in ns : \A m \in ns : rank[n] < rank[m] \/ (rank[n] = rank[m] /\ n <= m)
  <2>. HIDE DEF rank
  <2>. QED BY <1>1, <1>2, LeastRank
<1>4. \E n \in ns : least(n)
  BY <1>3
<1>5. PickLeastLoaded(view, ns) = CHOOSE n \in ns : least(n)
  BY DEF PickLeastLoaded
<1>6. PickLeastLoaded(view, ns) \in ns /\ least(PickLeastLoaded(view, ns))
  <2>. HIDE DEF least
  <2>. QED BY <1>4, <1>5
<1>. QED BY <1>1, <1>6

\* ChoosePlacementNode picks a reachable node, below its high-water mark if
\* there is one, of least load among those of its kind.
LEMMA Placement ==
  ASSUME NEW view, ViewOK(view)
  PROVE  LET n == ChoosePlacementNode(view)
         IN  IF Reachable(view) = {} THEN n = NoNode
             ELSE /\ n \in Reachable(view)
                  /\ Overloaded(view, n) => \A m \in Reachable(view) : Overloaded(view, m)
                  /\ \A m \in Reachable(view) :
                       (Overloaded(view, m) => Overloaded(view, n))
                         => view[n].load <= view[m].load
<1>. DEFINE n == ChoosePlacementNode(view)
            below == {m \in Reachable(view) : ~Overloaded(view, m)}
<1>1. below \in SUBSET DOMAIN view /\ Reachable(view) \in SUBSET DOMAIN view
  BY DEF Reachable
<1>2. CASE Reachable(view) = {}
  BY <1>2 DEF ChoosePlacementNode, PickLeastLoaded
<1>3. CASE below # {}
  <2>1. n = PickLeastLoaded(view, below)
    BY <1>3 DEF ChoosePlacementNode
  <2>2. n \in below /\ \A m \in below : view[n].load <= view[m].load
    <3>. HIDE DEF below, n
    <3>. QED BY <1>1, <1>3, <2>1, PickLeast
  <2>3. n \in Reachable(view) /\ ~Overloaded(view, n)
    BY <2>2
  <2>4. \A m \in Reachable(view) : ~Overloaded(view, m) => view[n].load <= view[m].load
    BY <2>2
  <2>. QED BY <2>3, <2>4
<1>4. CASE Reachable(view) # {} /\ below = {}
  <2>1. n = PickLeastLoaded(view, Reachable(view))
    BY <1>4 DEF ChoosePlacementNode
  <2>2. n \in Reachable(view) /\ \A m \in Reachable(view) : view[n].load <= view[m].load
    <3>. HIDE DEF below, n
    <3>. QED BY <1>1, <1>4, <2>1, PickLeast
  <2>3. \A m \in Reachable(view) : Overloaded(view, m)
    BY <1>4
  <2>. QED BY <2>2, <2>3, <1>4
<1>. QED BY <1>2, <1>3, <1>4

----------------------------------------------------------------------------
(* What a Route has counted *)

\* The keys looked up so far are finitely many.
LEMMA HeldFinite ==
  ASSUME TypeOK, NEW n
  PROVE  /\ HeldAlways(n) \in SUBSET (1..looked) /\ HeldEver(n) \in SUBSET (1..looked)
         /\ IsFiniteSet(HeldAlways(n)) /\ Cardinality(HeldAlways(n)) \in Nat
         /\ IsFiniteSet(HeldEver(n)) /\ Cardinality(HeldEver(n)) \in Nat
         /\ Cardinality(HeldEver(n)) <= looked
<1>1. looked \in Nat
  BY LenProperties DEF TypeOK
<1>2. IsFiniteSet(1..looked) /\ Cardinality(1..looked) = looked
  BY <1>1, FS_Interval
<1>3. HeldAlways(n) \in SUBSET (1..looked) /\ HeldEver(n) \in SUBSET (1..looked)
  BY DEF HeldAlways, HeldEver
<1>. QED BY <1>2, <1>3, FS_Subset, FS_CardinalityType

\* If a node was met and may be reached, one of the best may.
LEMMA BestExists ==
  ASSUME TypeOK, Counts, NEW n \in DOMAIN coverage, MayReach(n)
  PROVE  Best # {}
<1>. DEFINE met == {m \in DOMAIN coverage : MayReach(m)}
            rank == [m \in met |-> looked - coverage[m]]
<1>1. met \in SUBSET Nat /\ met # {} /\ met \subseteq Node
  BY SchedulerAssumption DEF TypeOK, Node
<1>2. looked \in Nat
  BY LenProperties DEF TypeOK
<1>3. \A m \in met : coverage[m] \in Nat /\ coverage[m] <= looked
  <2>. SUFFICES ASSUME NEW m \in met PROVE coverage[m] \in Nat /\ coverage[m] <= looked
    OBVIOUS
  <2>1. m \in Node /\ m \in DOMAIN coverage /\ coverage[m] \in Nat
    BY <1>1 DEF TypeOK
  <2>2. coverage[m] <= Cardinality(HeldEver(m))
    BY <2>1 DEF Counts
  <2>. QED BY <1>2, <2>1, <2>2, HeldFinite
<1>4. rank \in [met -> Nat]
  BY <1>2, <1>3
<1>5. \E b \in met : \A m \in met : rank[b] < rank[m] \/ (rank[b] = rank[m] /\ b <= m)
  <2>. HIDE DEF met, rank
  <2>. QED BY <1>1, <1>4, LeastRank
<1>6. PICK b \in met : \A m \in met : \/ coverage[b] > coverage[m]
                                      \/ coverage[b] = coverage[m] /\ b <= m
  <2>1. PICK b \in met : \A m \in met : rank[b] < rank[m] \/ (rank[b] = rank[m] /\ b <= m)
    BY <1>5
  <2>2. ASSUME NEW m \in met
        PROVE  coverage[b] > coverage[m] \/ (coverage[b] = coverage[m] /\ b <= m)
    <3>1. rank[b] = looked - coverage[b] /\ rank[m] = looked - coverage[m]
      OBVIOUS
    <3>2. coverage[b] \in Nat /\ coverage[m] \in Nat
      BY <1>3
    <3>. QED BY <1>2, <2>1, <3>1, <3>2
  <2>. QED BY <2>2
<1>7. b \in Best
  BY <1>6 DEF Best
<1>. QED BY <1>7

----------------------------------------------------------------------------
(* The invariant *)

DuringType == [Key -> [always : SUBSET Node, ever : SUBSET Node]]

\* A Route that has looked nothing up has counted nothing.
LEMMA NothingCounted ==
  ASSUME looked = 0, DOMAIN coverage = {}
  PROVE  Counts
BY DEF Counts, HeldAlways

\* No view lists no node.
LEMMA ViewsOK == ViewOK(NoView) /\ \A view \in Views : ViewOK(view)
BY SchedulerAssumption DEF ViewOK, NoView

\* The constructor establishes the invariant.
LEMMA InitInv == Init => Inv
<1>. SUFFICES ASSUME Init PROVE Inv
  OBVIOUS
<1>1. /\ prefix_reuse_enabled \in BOOLEAN /\ prefix = <<>> /\ looked = 0 /\ pc = "idle"
      /\ DOMAIN coverage = {} /\ cluster = NoView /\ snapshot = NoView
      /\ coverage \in [DOMAIN coverage -> Nat]
  BY DEF Init
<1>2. \A k \in Key : Lookup(k) = {}
  BY DEF Init, Lookup
<1>3. during \in DuringType
  BY DEF Init, DuringType
<1>4. prefix \in Seq(Key) /\ looked \in 0..Len(prefix)
  BY <1>1
<1>5. TypeOK
  BY <1>1, <1>2, <1>3, <1>4, ViewsOK DEF TypeOK, DuringType
<1>6. Phases /\ Witnessed /\ Decided
  BY <1>1 DEF Phases, Witnessed, Decided
<1>7. Counts
  BY <1>1, NothingCounted
<1>. QED BY <1>5, <1>6, <1>7 DEF Inv

\* What a change of the index has to show: the histories still enclose it,
\* those of all the time shrink and those of some time grow.
LEMMA IndexFrame ==
  ASSUME Inv, UNCHANGED <<prefix_reuse_enabled, cluster, routeVars, decision>>,
         during' \in DuringType,
         \A k \in Key :
           /\ Lookup(k)' \subseteq Node
           /\ during'[k].always \subseteq during[k].always
           /\ during[k].ever \subseteq during'[k].ever
           /\ during[k].always \subseteq Lookup(k) /\ Lookup(k) \subseteq during[k].ever =>
                /\ during'[k].always \subseteq Lookup(k)'
                /\ Lookup(k)' \subseteq during'[k].ever
  PROVE  Inv'
<1>1. UNCHANGED <<prefix_reuse_enabled, cluster, pc, prefix, snapshot, looked, coverage,
                  decision>>
  BY DEF routeVars
<1>2. TypeOK'
  BY <1>1 DEF Inv, TypeOK, DuringType
<1>3. Phases' /\ Decided'
  <2>1. Phases'
    BY <1>1 DEF Inv, Phases
  <2>2. Best' = Best
    BY <1>1 DEF Best, MayReach
  <2>3. Decided'
    BY <1>1, <2>2 DEF Inv, Decided
  <2>. QED BY <2>1, <2>3
<1>4. Witnessed'
  BY <1>1 DEF Inv, Witnessed
<1>5. ASSUME NEW n \in Node
      PROVE  /\ HeldAlways(n)' \subseteq HeldAlways(n)
             /\ HeldEver(n) \subseteq HeldEver(n)'
  <2>1. \A i \in 1..looked : prefix[i] \in Key
    BY ElementOfSeq, LenProperties DEF Inv, TypeOK
  <2>. QED BY <1>1, <2>1 DEF HeldAlways, HeldEver
<1>6. ASSUME NEW n \in Node
      PROVE  /\ Cardinality(HeldAlways(n)') <= Cardinality(HeldAlways(n))
             /\ Cardinality(HeldEver(n)) <= Cardinality(HeldEver(n)')
             /\ Cardinality(HeldAlways(n)) \in Nat /\ Cardinality(HeldEver(n)) \in Nat
             /\ Cardinality(HeldAlways(n)') \in Nat /\ Cardinality(HeldEver(n)') \in Nat
  <2>1. IsFiniteSet(HeldAlways(n)) /\ IsFiniteSet(HeldEver(n))
    BY HeldFinite DEF Inv
  <2>2. IsFiniteSet(HeldEver(n)')
    <3>1. HeldEver(n)' \in SUBSET (1..looked)
      BY <1>1 DEF HeldEver
    <3>2. looked \in Int /\ 1 \in Int
      BY LenProperties DEF Inv, TypeOK
    <3>. QED BY <3>1, <3>2, FS_Interval, FS_Subset
  <2>. QED BY <1>5, <2>1, <2>2, FS_Subset, FS_CardinalityType
<1>7. Counts'
  <2>. SUFFICES ASSUME NEW n \in Node
       PROVE  /\ n \in DOMAIN coverage =>
                   /\ coverage[n] >= 1
                   /\ Cardinality(HeldAlways(n)') <= coverage[n]
                   /\ coverage[n] <= Cardinality(HeldEver(n)')
              /\ n \notin DOMAIN coverage => HeldAlways(n)' = {}
    BY <1>1 DEF Counts
  <2>1. /\ n \in DOMAIN coverage =>
             /\ coverage[n] >= 1 /\ coverage[n] \in Nat
             /\ Cardinality(HeldAlways(n)) <= coverage[n]
             /\ coverage[n] <= Cardinality(HeldEver(n))
        /\ n \notin DOMAIN coverage => HeldAlways(n) = {}
    BY DEF Inv, Counts, TypeOK
  <2>. QED BY <1>5, <1>6, <2>1
<1>. QED BY <1>2, <1>3, <1>4, <1>7 DEF Inv

\* A node that registers a key holds it from now on.
LEMMA RegisterStep ==
  ASSUME Inv, NEW k \in Key, NEW n \in Node, Register(k, n)
  PROVE  Inv'
<1>1. \A j \in Key : Lookup(j)' = IF j = k THEN Lookup(k) \cup {n} ELSE Lookup(j)
  BY DEF Register, WithHolders, Lookup
<1>2. during \in DuringType
  BY DEF Inv, TypeOK, DuringType
<1>3. /\ during' \in DuringType
      /\ \A j \in Key : /\ during'[j].always = during[j].always
                        /\ during'[j].ever = IF j = k THEN during[k].ever \cup {n}
                                                      ELSE during[j].ever
  BY <1>2 DEF Register, DuringType
<1>4. \A j \in Key : Lookup(j) \subseteq Node
  BY DEF Inv, TypeOK
<1>5. UNCHANGED <<prefix_reuse_enabled, cluster, routeVars, decision>>
  BY DEF Register
<1>6. ASSUME NEW j \in Key
      PROVE  /\ Lookup(j)' \subseteq Node
             /\ during'[j].always \subseteq during[j].always
             /\ during[j].ever \subseteq during'[j].ever
             /\ during[j].always \subseteq Lookup(j) /\ Lookup(j) \subseteq during[j].ever =>
                  /\ during'[j].always \subseteq Lookup(j)'
                  /\ Lookup(j)' \subseteq during'[j].ever
  BY <1>1, <1>3, <1>4
<1>. QED BY <1>3, <1>5, <1>6, IndexFrame

\* A node that unregisters a key has not held it all the time.
LEMMA UnregisterStep ==
  ASSUME Inv, NEW k \in Key, NEW n \in Node, Unregister(k, n)
  PROVE  Inv'
<1>1. \A j \in Key : Lookup(j)' = IF j = k THEN Lookup(k) \ {n} ELSE Lookup(j)
  <2>1. CASE Lookup(k) = {n}
    <3>1. holders' = [j \in DOMAIN holders \ {k} |-> holders[j]]
      BY <2>1 DEF Unregister
    <3>. QED BY <2>1, <3>1 DEF Lookup
  <2>2. CASE Lookup(k) # {n}
    <3>1. holders' = WithHolders(k, Lookup(k) \ {n})
      BY <2>2 DEF Unregister
    <3>. QED BY <3>1 DEF WithHolders, Lookup
  <2>. QED BY <2>1, <2>2
<1>2. during \in DuringType
  BY DEF Inv, TypeOK, DuringType
<1>3. /\ during' \in DuringType
      /\ \A j \in Key : /\ during'[j].ever = during[j].ever
                        /\ during'[j].always = IF j = k THEN during[k].always \ {n}
                                                        ELSE during[j].always
  BY <1>2 DEF Unregister, DuringType
<1>4. \A j \in Key : Lookup(j) \subseteq Node
  BY DEF Inv, TypeOK
<1>5. UNCHANGED <<prefix_reuse_enabled, cluster, routeVars, decision>>
  BY DEF Unregister
<1>6. ASSUME NEW j \in Key
      PROVE  /\ Lookup(j)' \subseteq Node
             /\ during'[j].always \subseteq during[j].always
             /\ during[j].ever \subseteq during'[j].ever
             /\ during[j].always \subseteq Lookup(j) /\ Lookup(j) \subseteq during[j].ever =>
                  /\ during'[j].always \subseteq Lookup(j)'
                  /\ Lookup(j)' \subseteq during'[j].ever
  BY <1>1, <1>3, <1>4
<1>. QED BY <1>3, <1>5, <1>6, IndexFrame

\* The steps that begin or end a call, and the update of the cluster view.
LEMMA CallStep ==
  ASSUME Inv,
         \/ \E view \in Views : UpdateClusterState(view)
         \/ \E k \in Key, view \in Views : ResolveOnFailure(k, view)
         \/ \E keys \in Prefixes : RouteBegins(keys)
         \/ Return
  PROVE  Inv'
<1>n. \A k \in Key : Lookup(k) \subseteq Node
  BY DEF Inv, TypeOK
<1>1. ASSUME NEW view \in Views, UpdateClusterState(view) PROVE Inv'
  <2>1. /\ ViewOK(cluster')
        /\ UNCHANGED <<prefix_reuse_enabled, holders, during, pc, prefix, snapshot, looked,
                       coverage, decision>>
    BY <1>1, ViewsOK DEF UpdateClusterState, indexVars, routeVars
  <2>. QED BY <2>1 DEF Inv, TypeOK, Phases, Witnessed, Counts, Decided, Best, MayReach,
                       HeldAlways, HeldEver, Lookup
<1>2. ASSUME NEW k \in Key, NEW view \in Views, ResolveOnFailure(k, view) PROVE Inv'
  <2>1. /\ pc = "idle" /\ pc' = "resolved" /\ prefix' = <<k>> /\ snapshot' = view
        /\ during' = [j \in Key |-> [always |-> Lookup(j), ever |-> Lookup(j)]]
        /\ UNCHANGED <<prefix_reuse_enabled, holders, cluster, looked, coverage>>
    BY <1>2 DEF ResolveOnFailure
  <2>2. looked = 0 /\ DOMAIN coverage = {}
    BY <2>1 DEF Inv, Phases
  <2>3. /\ \A j \in Key : during'[j].always = Lookup(j) /\ during'[j].ever = Lookup(j)
        /\ during' \in DuringType /\ \A j \in Key : Lookup(j)' = Lookup(j)
    BY <1>n, <2>1 DEF DuringType, Lookup
  <2>4. prefix' \in Seq(Key) /\ looked' \in 0..Len(prefix')
    BY <2>1, <2>2
  <2>5. TypeOK'
    BY <1>n, <2>1, <2>3, <2>4, ViewsOK DEF Inv, TypeOK, DuringType
  <2>6. Phases' /\ Decided' /\ Witnessed'
    BY <2>1, <2>3 DEF Phases, Decided, Witnessed
  <2>7. Counts'
    BY <2>1, <2>2 DEF Counts, HeldAlways
  <2>. QED BY <2>5, <2>6, <2>7 DEF Inv
<1>3. ASSUME NEW keys \in Prefixes, RouteBegins(keys) PROVE Inv'
  <2>1. /\ pc' = IF prefix_reuse_enabled THEN "lookup" ELSE "decide"
        /\ prefix' = keys /\ snapshot' = cluster /\ looked' = 0
        /\ DOMAIN coverage' = {} /\ coverage' \in [DOMAIN coverage' -> Nat]
        /\ during' = [j \in Key |-> [always |-> Lookup(j), ever |-> Lookup(j)]]
        /\ UNCHANGED <<prefix_reuse_enabled, holders, cluster>>
    BY <1>3 DEF RouteBegins
  <2>2. /\ \A j \in Key : during'[j].always = Lookup(j) /\ during'[j].ever = Lookup(j)
        /\ during' \in DuringType /\ \A j \in Key : Lookup(j)' = Lookup(j)
    BY <1>n, <2>1 DEF DuringType, Lookup
  <2>3. prefix' \in Seq(Key) /\ looked' \in 0..Len(prefix')
    <3>1. PICK n \in 0..MaxPrefix : keys \in [1..n -> Key]
      BY DEF Prefixes
    <3>2. keys \in Seq(Key)
      BY <3>1, SchedulerAssumption, SeqDef
    <3>. QED BY <2>1, <3>2, LenProperties
  <2>4. TypeOK'
    BY <1>n, <2>1, <2>2, <2>3 DEF Inv, TypeOK, DuringType
  <2>5. Phases' /\ Decided' /\ Witnessed'
    BY <2>1, <2>2 DEF Inv, TypeOK, Phases, Decided, Witnessed
  <2>6. Counts'
    BY <2>1 DEF Counts, HeldAlways
  <2>. QED BY <2>4, <2>5, <2>6 DEF Inv
<1>4. CASE Return
  <2>1. /\ pc' = "idle" /\ prefix' = <<>> /\ snapshot' = NoView /\ looked' = 0
        /\ DOMAIN coverage' = {} /\ coverage' \in [DOMAIN coverage' -> Nat]
        /\ during' = [j \in Key |-> [always |-> {}, ever |-> {}]]
        /\ UNCHANGED <<prefix_reuse_enabled, holders, cluster>>
    BY <1>4 DEF Return
  <2>2. during' \in DuringType /\ \A j \in Key : Lookup(j)' = Lookup(j)
    BY <2>1 DEF DuringType, Lookup
  <2>3. prefix' \in Seq(Key) /\ looked' \in 0..Len(prefix')
    BY <2>1
  <2>4. TypeOK'
    BY <1>n, <2>1, <2>2, <2>3, ViewsOK DEF Inv, TypeOK, DuringType
  <2>5. Phases' /\ Decided' /\ Witnessed'
    BY <2>1 DEF Phases, Decided, Witnessed
  <2>6. Counts'
    BY <2>1 DEF Counts, HeldAlways
  <2>. QED BY <2>4, <2>5, <2>6 DEF Inv
<1>. QED BY <1>1, <1>2, <1>3, <1>4

\* Looking up one more key counts every node that holds it at that moment.
LEMMA LookUpStep ==
  ASSUME Inv, RouteLooksUp
  PROVE  Inv'
<1>. DEFINE x == prefix[looked + 1]
            ns == Lookup(x)
<1>1. /\ pc = "lookup" /\ looked < Len(prefix) /\ looked' = looked + 1
      /\ coverage' = Counted(ns)
      /\ UNCHANGED <<prefix_reuse_enabled, holders, during, cluster, pc, prefix, snapshot,
                     decision>>
  BY DEF RouteLooksUp, indexVars
<1>2. /\ looked \in Nat /\ prefix \in Seq(Key) /\ Len(prefix) \in Nat
      /\ looked' \in 0..Len(prefix) /\ x \in Key
      /\ \A i \in 1..looked : prefix[i] \in Key
  <2>1. looked \in Nat /\ prefix \in Seq(Key) /\ Len(prefix) \in Nat
    BY LenProperties DEF Inv, TypeOK
  <2>2. \A i \in 1..Len(prefix) : prefix[i] \in Key
    BY <2>1, ElementOfSeq
  <2>. QED BY <1>1, <2>1, <2>2
<1>3. /\ ns \subseteq Node /\ during[x].always \subseteq ns /\ ns \subseteq during[x].ever
      /\ \A k \in Key : Lookup(k)' = Lookup(k)
  BY <1>1, <1>2 DEF Inv, TypeOK, Witnessed, Lookup
<1>. HIDE DEF x, ns
<1>4. DOMAIN coverage \subseteq Node /\ \A n \in DOMAIN coverage : coverage[n] \in Nat
  BY DEF Inv, TypeOK
<1>5. /\ DOMAIN coverage' = DOMAIN coverage \cup ns
      /\ \A n \in DOMAIN coverage' :
           coverage'[n] = (IF n \in DOMAIN coverage THEN coverage[n] ELSE 0)
                            + (IF n \in ns THEN 1 ELSE 0)
      /\ coverage' = [n \in DOMAIN coverage' |-> coverage'[n]]
  BY <1>1 DEF Counted
<1>6. TypeOK'
  <2>1. \A n \in DOMAIN coverage' : coverage'[n] \in Nat
    BY <1>4, <1>5
  <2>2. coverage' \in [DOMAIN coverage' -> Nat]
    BY <1>5, <2>1
  <2>3. DOMAIN coverage' \subseteq Node
    BY <1>3, <1>4, <1>5
  <2>. QED BY <1>1, <1>2, <1>3, <2>2, <2>3 DEF Inv, TypeOK
<1>7. Phases' /\ Witnessed' /\ Decided'
  BY <1>1, <1>3 DEF Inv, Phases, Witnessed, Decided
<1>8. ASSUME NEW n \in Node
      PROVE  /\ n \in DOMAIN coverage' =>
                  /\ coverage'[n] >= 1
                  /\ Cardinality(HeldAlways(n)') <= coverage'[n]
                  /\ coverage'[n] <= Cardinality(HeldEver(n)')
             /\ n \notin DOMAIN coverage' => HeldAlways(n)' = {}
  <2>1. \A i \in 1..looked' : i \in 1..looked \/ i = looked + 1
    BY <1>1, <1>2
  <2>2. looked + 1 \in 1..looked' /\ looked + 1 \notin 1..looked /\ 1..looked \subseteq 1..looked'
    BY <1>1, <1>2
  <2>3. HeldAlways(n)' = IF n \in during[x].always THEN HeldAlways(n) \cup {looked + 1}
                                                    ELSE HeldAlways(n)
    BY <1>1, <2>1, <2>2 DEF HeldAlways, x
  <2>4. HeldEver(n)' = IF n \in during[x].ever THEN HeldEver(n) \cup {looked + 1}
                                               ELSE HeldEver(n)
    BY <1>1, <2>1, <2>2 DEF HeldEver, x
  <2>5. looked + 1 \notin HeldAlways(n) /\ looked + 1 \notin HeldEver(n)
    BY <2>2 DEF HeldAlways, HeldEver
  <2>. DEFINE a == Cardinality(HeldAlways(n))
              e == Cardinality(HeldEver(n))
              c == IF n \in DOMAIN coverage THEN coverage[n] ELSE 0
  <2>6. /\ IsFiniteSet(HeldAlways(n)) /\ a \in Nat
        /\ IsFiniteSet(HeldEver(n)) /\ e \in Nat
    BY HeldFinite DEF Inv
  <2>7. /\ Cardinality(HeldAlways(n)') = IF n \in during[x].always THEN a + 1 ELSE a
        /\ Cardinality(HeldEver(n)') = IF n \in during[x].ever THEN e + 1 ELSE e
    BY <2>3, <2>4, <2>5, <2>6, FS_AddElement
  <2>8. /\ c \in Nat /\ a <= c /\ c <= e /\ (n \in DOMAIN coverage => c >= 1)
        /\ n \notin DOMAIN coverage => HeldAlways(n) = {}
    <3>1. CASE n \in DOMAIN coverage
      BY <1>4, <3>1 DEF Inv, Counts
    <3>2. CASE n \notin DOMAIN coverage
      <4>1. HeldAlways(n) = {}
        BY <3>2 DEF Inv, Counts
      <4>2. a = 0
        BY <4>1, FS_EmptySet
      <4>. QED BY <3>2, <4>1, <4>2, <2>6
    <3>. QED BY <3>1, <3>2
  <2>9. n \in DOMAIN coverage' => coverage'[n] = c + (IF n \in ns THEN 1 ELSE 0)
    BY <1>5
  <2>10. n \in DOMAIN coverage' <=> n \in DOMAIN coverage \/ n \in ns
    BY <1>5
  <2>. HIDE DEF a, e, c
  <2>11. n \in during[x].always => n \in ns
    BY <1>3
  <2>12. n \in ns => n \in during[x].ever
    BY <1>3
  <2>. QED BY <2>3, <2>6, <2>7, <2>8, <2>9, <2>10, <2>11, <2>12
<1>9. Counts'
  BY <1>8 DEF Counts
<1>. QED BY <1>6, <1>7, <1>9 DEF Inv

\* The decision follows from what was counted.
LEMMA DecideStep ==
  ASSUME Inv, RouteDecides
  PROVE  Inv'
<1>1. /\ pc \in {"decide", "lookup"} /\ pc' = "routed"
      /\ pc = "lookup" => looked = Len(prefix)
      /\ UNCHANGED <<prefix_reuse_enabled, holders, during, cluster, prefix, snapshot,
                     looked, coverage>>
  BY DEF RouteDecides, indexVars
<1>2. decision' = IF Best = {}
                    THEN Decision(ChoosePlacementNode(snapshot), FALSE, FALSE)
                    ELSE Decision(CHOOSE n \in Best : TRUE, TRUE, FALSE)
  BY DEF RouteDecides
<1>3. Best' = Best
  BY <1>1 DEF Best, MayReach
<1>4. Decided'
  BY <1>1, <1>2, <1>3 DEF Decided
<1>5. TypeOK' /\ Phases'
  BY <1>1 DEF Inv, TypeOK, Phases, Lookup
<1>6. Witnessed' /\ Counts'
  BY <1>1 DEF Inv, Witnessed, Counts, Lookup, HeldAlways, HeldEver
<1>. QED BY <1>4, <1>5, <1>6 DEF Inv

\* Every step keeps the invariant.
LEMMA NextInv == Inv /\ [Next]_vars => Inv'
<1>. SUFFICES ASSUME Inv, [Next]_vars PROVE Inv'
  OBVIOUS
<1>1. ASSUME NEW k \in Key, NEW n \in Node, Register(k, n) \/ Unregister(k, n)
      PROVE  Inv'
  BY <1>1, RegisterStep, UnregisterStep
<1>2. CASE UNCHANGED vars
  <2>1. UNCHANGED <<prefix_reuse_enabled, holders, cluster, pc, prefix, snapshot, looked,
                    coverage, decision, during>>
    BY <1>2 DEF vars, routeVars
  <2>2. Best' = Best
    BY <2>1 DEF Best, MayReach
  <2>. QED BY <2>1, <2>2 DEF Inv, TypeOK, Phases, Witnessed, Counts, Decided, Lookup,
                             HeldAlways, HeldEver
<1>. QED BY <1>1, <1>2, CallStep, LookUpStep, DecideStep DEF Next

\* The invariant holds in every reachable state.
THEOREM SchedulerInv == Spec => []Inv
BY InitInv, NextInv, PTL DEF Spec

\* Route, which copies the cluster view and then takes the lock of one shard
\* after the other, misses no node that kept a prefix block throughout and
\* picks none that was worse than another all the time, whatever Register and
\* Unregister do between its look-ups.
THEOREM RouteSound == Spec => []RouteReuses
<1>1. Inv => RouteReuses
  <2>. SUFFICES ASSUME Inv, pc = "routed", prefix_reuse_enabled
       PROVE  IF decision.reuse_prefix
                THEN /\ Ever(decision.node) # {} /\ MayReach(decision.node)
                     /\ \A n \in Node : MayReach(n) =>
                          Cardinality(Always(n)) <= Cardinality(Ever(decision.node))
                ELSE \A n \in Node : MayReach(n) => Always(n) = {}
    BY DEF RouteReuses
  <2>1. \A n \in Node : Always(n) = HeldAlways(n) /\ Ever(n) = HeldEver(n)
    <3>1. DOMAIN prefix = 1..looked
      BY LenProperties DEF Inv, TypeOK, Phases
    <3>. QED BY <3>1 DEF Always, Ever, HeldAlways, HeldEver
  <2>2. ASSUME NEW b \in Best, decision = Decision(b, TRUE, FALSE)
        PROVE  /\ decision.reuse_prefix = TRUE
               /\ Ever(decision.node) # {} /\ MayReach(decision.node)
               /\ \A n \in Node : MayReach(n) =>
                    Cardinality(Always(n)) <= Cardinality(Ever(decision.node))
    <3>1. decision.reuse_prefix = TRUE /\ decision.node = b
      BY <2>2 DEF Decision
    <3>2. /\ b \in DOMAIN coverage /\ MayReach(b) /\ b \in Node
          /\ \A m \in DOMAIN coverage :
               MayReach(m) => \/ coverage[b] > coverage[m]
                              \/ coverage[b] = coverage[m] /\ b <= m
      BY DEF Best, Inv, TypeOK
    <3>3. /\ coverage[b] \in Nat /\ coverage[b] >= 1
          /\ coverage[b] <= Cardinality(HeldEver(b)) /\ Cardinality(HeldEver(b)) \in Nat
      BY <3>2, HeldFinite DEF Inv, Counts, TypeOK
    <3>4. Ever(b) # {}
      <4>1. Cardinality(HeldEver(b)) # 0
        BY <3>3
      <4>. QED BY <2>1, <3>2, <4>1, FS_EmptySet
    <3>5. ASSUME NEW n \in Node, MayReach(n)
          PROVE  Cardinality(HeldAlways(n)) <= Cardinality(HeldEver(b))
      <4>1. CASE n \in DOMAIN coverage
        <5>1. coverage[n] \in Nat /\ Cardinality(HeldAlways(n)) <= coverage[n]
          BY <4>1 DEF Inv, Counts, TypeOK
        <5>2. Cardinality(HeldAlways(n)) \in Nat
          BY HeldFinite DEF Inv
        <5>3. coverage[n] <= coverage[b]
          BY <3>2, <3>3, <3>5, <4>1, <5>1
        <5>. QED BY <3>3, <5>1, <5>2, <5>3
      <4>2. CASE n \notin DOMAIN coverage
        <5>1. HeldAlways(n) = {}
          BY <4>2 DEF Inv, Counts
        <5>. QED BY <3>3, <5>1, FS_EmptySet
      <4>. QED BY <4>1, <4>2
    <3>. QED BY <2>1, <3>1, <3>2, <3>4, <3>5
  <2>3. ASSUME Best = {}, decision = Decision(ChoosePlacementNode(snapshot), FALSE, FALSE)
        PROVE  /\ decision.reuse_prefix = FALSE
               /\ \A n \in Node : MayReach(n) => Always(n) = {}
    <3>1. decision.reuse_prefix = FALSE
      BY <2>3 DEF Decision
    <3>2. ASSUME NEW n \in Node, MayReach(n) PROVE HeldAlways(n) = {}
      <4>1. n \notin DOMAIN coverage
        BY <2>3, <3>2, BestExists DEF Inv
      <4>. QED BY <4>1 DEF Inv, Counts
    <3>. QED BY <2>1, <3>1, <3>2
  <2>4. \/ \E b \in Best : decision = Decision(b, TRUE, FALSE)
        \/ Best = {} /\ decision = Decision(ChoosePlacementNode(snapshot), FALSE, FALSE)
    BY DEF Inv, Decided
  <2>. QED BY <2>2, <2>3, <2>4
<1>. QED BY <1>1, SchedulerInv, PTL

\* A request that reuses nothing goes to a reachable node below its own
\* high-water mark, if its copy of the cluster view has one, of least load
\* among them: a busier node is taken before one that has reached its mark.
THEOREM PlacementSound == Spec => []PlacementAvoidsOverload
<1>1. Inv => PlacementAvoidsOverload
  <2>. SUFFICES ASSUME Inv, pc = "routed", ~decision.reuse_prefix
       PROVE  PlacementAvoidsOverload
    BY DEF PlacementAvoidsOverload
  <2>1. \A b : Decision(b, TRUE, FALSE).reuse_prefix = TRUE
    BY DEF Decision
  <2>2. decision = Decision(ChoosePlacementNode(snapshot), FALSE, FALSE)
    BY <2>1 DEF Inv, Decided
  <2>3. decision.node = ChoosePlacementNode(snapshot)
    BY <2>2 DEF Decision
  <2>4. ViewOK(snapshot)
    BY DEF Inv, TypeOK
  <2>5. \A n \in Nat : AtMark(n) <=> Overloaded(snapshot, n)
    BY DEF AtMark, Overloaded
  <2>6. Reachable(snapshot) \subseteq Nat
    BY <2>4, SchedulerAssumption DEF Reachable, ViewOK, Node
  <2>. QED BY <2>3, <2>4, <2>5, <2>6, Placement DEF PlacementAvoidsOverload
<1>. QED BY <1>1, SchedulerInv, PTL
=============================================================================
