------------------------------- MODULE Connector -------------------------------
(***************************************************************************)
(* The Python clients of the C++ core: ProjectKVConnector                  *)
(* (vllm_adapter/connector.py) with its store_kv and load_kv, and the      *)
(* replay scripts bench/replay_cpp.py and bench/replay_multitenant.py,     *)
(* over PyTieredStore and PyScheduler of src/bindings/bindings.cpp, and    *)
(* those over the tiered store (TieredStorage), the prefix prefetcher      *)
(* (PrefixPrefetcher) and the index.                                       *)
(*                                                                         *)
(* The bindings keep the interpreter lock during a call: `holder' is the   *)
(* thread that is inside the core, and threads take turns between calls.   *)
(***************************************************************************)
EXTENDS PrefixPrefetcher

CONSTANTS
  \* TieredStorage
  Payload, NoPayload, Size, MaxSize, Configured, Capacity, RatioNum, RatioDen,
  Tenant, Weighted, Weight, GhostCapacity, MaxClock, MaxPredicted,
  \* Clients
  Thread, NoThread,
  Clients,       \* who uses the core: "connector", "replay", "replay_pair",
                 \* or "caller" of record_sequence alone
  ReusePrefixes, \* values of prefix_reuse_enabled
  Budget,        \* budget of prefetch_chain_multi, 8 in the code
  Block,         \* _PAYLOAD, the block the replays write
  Budgets,       \* bound: budgets for which PredictionsExact is stated
  Requested,     \* bound: keys that requests name
  MaxBlocks,     \* bound: blocks of one request
  MaxRequests    \* bound: requests of all threads together

ASSUME ClientAssumption ==
  /\ Requested \subseteq Key /\ MaxBlocks \in Nat /\ MaxBlocks <= MaxLen
  /\ Block \in Payload /\ NoPayload \notin Payload /\ {0, 1, 2} \subseteq Tenant
  /\ NoThread \notin Thread /\ Budget \in Nat /\ Budgets \subseteq Nat
  /\ IsFiniteSet(Key) /\ MaxPredicted \in Nat /\ Cardinality(Key) <= MaxPredicted

VARIABLES
  blocks, clock, used, smallFifo, mainFifo, smallUsed, victimIndex, ghost,
  ghostFifo, tenantUsed, tenantIndex, op, serving, frames, ret,  \* TieredStorage
  client, reuse, \* the client program and its prefix_reuse_enabled
  holder,        \* the thread inside a call of the core, NoThread for none
  req,           \* the running request of each thread
  index,         \* keys register_block has registered for this node
  accepted,      \* history: writes accepted for each key
  issued         \* number of requests so far, of each tenant

Store == INSTANCE TieredStorage WITH todo <- serving

storeVars ==
  <<blocks, clock, used, smallFifo, mainFifo, smallUsed, victimIndex, ghost,
    ghostFifo, tenantUsed, tenantIndex, op, serving, frames, ret>>
clientVars == <<client, reuse, holder, req, index, accepted, issued>>
connectorVars == <<vars, storeVars, clientVars>>

Resident == Store!Resident

\* at is the next call of the request, pos the key it is at; seen is a history
\* of what it found in the store and nothing was written since.
Request(kind, at, keys, tensors, tenant, seen) ==
  [kind |-> kind, at |-> at, pos |-> 1, keys |-> keys, tensors |-> tensors,
   tenant |-> tenant, loaded |-> NoEdges, missing |-> {}, seen |-> seen]

NoRequest == Request("none", "none", <<>>, <<>>, 0, {})

ConnectorInit ==
  /\ Init /\ Store!Init
  /\ client \in Clients
  /\ reuse \in IF client = "connector" THEN ReusePrefixes ELSE {TRUE}
  /\ holder = NoThread
  /\ req = [t \in Thread |-> NoRequest]
  /\ index = {}
  /\ accepted = [k \in Key |-> {}]
  /\ issued = [n \in Tenant |-> 0]

----------------------------------------------------------------------------
(* Steps of a thread *)

Turn(t, at) == holder = NoThread /\ req[t].at = at
AtKey(t) == req[t].pos <= Len(req[t].keys)
KeyOf(t) == req[t].keys[req[t].pos]

Set(t, r) == req' = [req EXCEPT ![t] = r]
GoTo(t, at) == Set(t, [req[t] EXCEPT !.at = at])
NextKey(t, at) == Set(t, [req[t] EXCEPT !.at = at, !.pos = @ + 1])

\* A call into the core, and the return from it.
Enter(t) == holder' = t
Leave(t) == holder = t /\ op = "idle" /\ ~Recording /\ holder' = NoThread

Fixed == UNCHANGED <<client, reuse>>

Begin(t, kind, at, keys, tensors, tenant) ==
  /\ holder = NoThread /\ req[t].kind = "none"
  /\ MapThenSumSet(LAMBDA n : issued[n], Tenant) < MaxRequests
  /\ issued' = [issued EXCEPT ![tenant] = @ + 1]
  /\ Set(t, Request(kind, at, keys, tensors, tenant,
                    IF kind = "load" THEN Resident ELSE {}))
  /\ UNCHANGED <<vars, storeVars, holder, index, accepted>> /\ Fixed

Tensors == UNION {[1..n -> Payload] : n \in 0..MaxBlocks}

\* Keys and tensors of different number raise ValueError.
store_kv(t, keys, tensors) ==
  /\ client = "connector"
  /\ Begin(t, IF Len(keys) = Len(tensors) THEN "store" ELSE "none",
           IF Len(keys) = Len(tensors) THEN "put" ELSE "none", keys, tensors, 0)

load_kv(t, keys) ==
  /\ client = "connector"
  /\ Begin(t, "load", IF reuse THEN "prefetch" ELSE "get", keys, <<>>, 0)

\* One record of the trace; the replays have one thread.
replay(t, keys) ==
  /\ client = "replay"
  /\ \A u \in Thread : req[u].kind = "none"
  /\ Begin(t, "replay", "chain", keys, [i \in DOMAIN keys |-> Block], 0)

\* Tenants 1 and 2 take turns, until the trace of one is at its end.  A key
\* carries its tenant's salt, so none is ever used by both.
replay_pair(t, keys, tenant) ==
  /\ client = "replay_pair"
  /\ \A u \in Thread : req[u].kind = "none"
  /\ tenant = 1 => issued[2] <= issued[1]
  /\ tenant = 2 => issued[1] <= issued[2] + 1
  /\ \A k \in Range(keys) : \A w \in accepted[k] : w.tenant = tenant
  /\ Begin(t, "replay", "chain", keys, [i \in DOMAIN keys |-> Block], tenant)

----------------------------------------------------------------------------
(* The calls *)

Put(t) ==
  /\ Turn(t, "put") /\ AtKey(t)
  /\ LET p == req[t].tensors[req[t].pos]
     IN  /\ Store!Write(KeyOf(t), p, 0, req[t].tenant)
         /\ accepted' = [accepted EXCEPT ![KeyOf(t)] = @ \cup {[payload |-> p, tenant |-> req[t].tenant]}]
  /\ Enter(t)
  /\ req' = [u \in Thread |-> [req[u] EXCEPT !.seen = {}]]
  /\ UNCHANGED <<vars, index, issued>> /\ Fixed

\* Mutant: the error is swallowed and the sequence recorded.
PutRaises_GoesOn(t) ==
  /\ Turn(t, "put") /\ AtKey(t)
  /\ Store!WriteRejected(req[t].tensors[req[t].pos], 0)
  /\ NextKey(t, "put")
  /\ UNCHANGED <<vars, holder, index, accepted, issued>> /\ Fixed

\* RuntimeError: the rest of the request is given up.
PutRaises(t) ==
  /\ Turn(t, "put") /\ AtKey(t)
  /\ Store!WriteRejected(req[t].tensors[req[t].pos], 0)
  /\ Set(t, NoRequest)
  /\ UNCHANGED <<vars, holder, index, accepted, issued>> /\ Fixed

\* Mutant: only the last block of a request is registered.
PutReturns_RegistersLast(t) ==
  /\ Leave(t) /\ req[t].at = "put"
  /\ IF req[t].kind = "store"
       THEN IF req[t].pos = Len(req[t].keys) THEN GoTo(t, "register")
                                             ELSE NextKey(t, "put")
       ELSE NextKey(t, "exists")
  /\ UNCHANGED <<vars, storeVars, index, accepted, issued>> /\ Fixed

PutReturns(t) ==
  /\ Leave(t) /\ req[t].at = "put"
  /\ IF req[t].kind = "store" THEN GoTo(t, "register") ELSE NextKey(t, "exists")
  /\ UNCHANGED <<vars, storeVars, index, accepted, issued>> /\ Fixed

register_block(t) ==
  /\ Turn(t, "register")
  /\ index' = index \cup {KeyOf(t)}
  /\ NextKey(t, "put")
  /\ UNCHANGED <<vars, storeVars, holder, accepted, issued>> /\ Fixed

\* After the last key: record_sequence, unless prefix reuse is off.
record_sequence(t) ==
  /\ Turn(t, "put") \/ Turn(t, "exists")
  /\ ~AtKey(t)
  /\ IF req[t].kind = "replay" \/ reuse
       THEN /\ RecordSequence(req[t].keys)
            /\ Enter(t) /\ GoTo(t, "record")
       ELSE /\ Set(t, NoRequest)
            /\ UNCHANGED <<vars, holder>>
  /\ UNCHANGED <<storeVars, index, accepted, issued>> /\ Fixed

\* The binding called directly, with any keys, by nobody else at work.
RecordDirectly(t, keys) ==
  /\ client = "caller"
  /\ holder = NoThread
  /\ RecordSequence(keys)
  /\ Enter(t) /\ GoTo(t, "record")
  /\ UNCHANGED <<storeVars, index, accepted, issued>> /\ Fixed

RecordReturns(t) ==
  /\ Leave(t) /\ req[t].at = "record"
  /\ Set(t, NoRequest)
  /\ UNCHANGED <<vars, storeVars, index, accepted, issued>> /\ Fixed

prefetch(t) ==
  /\ Turn(t, "prefetch")
  /\ Store!Prefetch(req[t].keys)
  /\ Enter(t)
  /\ UNCHANGED <<vars, req, index, accepted, issued>> /\ Fixed

Reading(t) == IF req[t].kind = "load" THEN "get" ELSE "exists"

PrefetchReturns(t) ==
  /\ Leave(t) /\ req[t].at \in {"prefetch", "chain"}
  /\ GoTo(t, IF req[t].at = "prefetch" /\ req[t].keys # <<>> THEN "chain"
             ELSE Reading(t))
  /\ UNCHANGED <<vars, storeVars, index, accepted, issued>> /\ Fixed

prefetch_chain_multi(t) ==
  /\ Turn(t, "chain")
  /\ LET chain == PredictChainMulti(req[t].keys, Budget)
     IN  IF chain = <<>>
           THEN GoTo(t, Reading(t)) /\ UNCHANGED <<storeVars, holder>>
           ELSE Store!Prefetch(chain) /\ Enter(t) /\ UNCHANGED req
  /\ UNCHANGED <<vars, index, accepted, issued>> /\ Fixed

\* The replays look before they read, and count what they see as a hit.
exists(t) ==
  /\ Turn(t, "exists") /\ AtKey(t)
  /\ Set(t, IF KeyOf(t) \in Resident
              THEN [req[t] EXCEPT !.at = "get", !.seen = {KeyOf(t)}]
              ELSE [req[t] EXCEPT !.at = "put"])
  /\ UNCHANGED <<vars, storeVars, holder, index, accepted, issued>> /\ Fixed

get(t) ==
  /\ Turn(t, "get") /\ AtKey(t)
  /\ \/ Store!ReadMiss(KeyOf(t)) \/ Store!ReadFast(KeyOf(t))
     \/ Store!ReadSlowInPlace(KeyOf(t)) \/ Store!ReadPromote(KeyOf(t))
  /\ Enter(t)
  /\ UNCHANGED <<vars, req, index, accepted, issued>> /\ Fixed

\* None stands for every answer that is not a block.
GetReturns(t) ==
  LET k == KeyOf(t)
      r == [req[t] EXCEPT !.pos = @ + 1, !.at = Reading(t)]
  IN  /\ Leave(t) /\ req[t].at = "get"
      /\ Set(t, IF req[t].kind = "replay" THEN r
                ELSE IF ret.payload = NoPayload THEN [r EXCEPT !.missing = @ \cup {k}]
                ELSE [r EXCEPT !.loaded = Link(@, k, ret.payload)])
      /\ UNCHANGED <<vars, storeVars, index, accepted, issued>> /\ Fixed

\* LoadResult is returned.
LoadReturns(t) ==
  /\ Turn(t, "get") /\ ~AtKey(t)
  /\ Set(t, NoRequest)
  /\ UNCHANGED <<vars, storeVars, holder, index, accepted, issued>> /\ Fixed

\* The core at work for the thread that is inside it.
StoreWorks ==
  /\ holder # NoThread /\ Store!Locked
  /\ UNCHANGED <<vars, clientVars>>

PrefetcherWorks ==
  /\ holder # NoThread /\ (InsertEdgeLocked \/ RollOut)
  /\ UNCHANGED <<storeVars, clientVars>>

Proceed(t) ==
  \/ Put(t) \/ PutRaises(t) \/ PutReturns(t) \/ register_block(t)
  \/ record_sequence(t) \/ RecordReturns(t) \/ prefetch(t) \/ PrefetchReturns(t)
  \/ prefetch_chain_multi(t) \/ exists(t) \/ get(t) \/ GetReturns(t) \/ LoadReturns(t)

\* The blocks of a request are different ones.
BlockLists ==
  {keys \in UNION {[1..n -> Requested] : n \in 0..MaxBlocks} : IsInjective(keys)}

Arrive(t, keys) ==
  \/ \E tensors \in Tensors : store_kv(t, keys, tensors)
  \/ load_kv(t, keys) \/ replay(t, keys)
  \/ \E tenant \in {1, 2} : replay_pair(t, keys, tenant)

ConnectorNext ==
  \/ \E t \in Thread : Proceed(t) \/ \E keys \in BlockLists : Arrive(t, keys)
  \/ \E t \in Thread, keys \in KeySequences : RecordDirectly(t, keys)
  \/ StoreWorks \/ PrefetcherWorks

ConnectorSpec == ConnectorInit /\ [][ConnectorNext]_connectorVars

----------------------------------------------------------------------------
(* Properties *)

Calling(t, at) == req[t].at = at /\ AtKey(t)

\* Whatever the store holds for a connector is in the index, or the store_kv
\* that wrote it is about to register it: also when a put in the middle of a
\* request raises, no block is stored behind the scheduler's back.
IndexCoversStore ==
  client = "connector" =>
    Resident \subseteq index \cup {KeyOf(t) : t \in {u \in Thread :
                                     \/ Calling(u, "register")
                                     \/ holder = u /\ Calling(u, "put")}}

\* The successor graph links only blocks that were stored: a request that
\* failed half-way leaves no edge, and what load_kv prefetches along the
\* chains has been written by someone.
ChainsWereStored ==
  client # "caller" =>
  \A k \in DOMAIN successor : accepted[k] # {} /\ accepted[successor[k]] # {}

\* load_kv accounts for every key it has read, in loaded or in missing, never
\* in both, and a loaded block has a content that was accepted for its key.
LoadAccounts ==
  \A t \in Thread : req[t].kind = "load" =>
    LET r == req[t]
        done == [i \in 1..(r.pos - 1) |-> r.keys[i]]
    IN  /\ DOMAIN r.loaded \cup r.missing = Range(done)
        /\ DOMAIN r.loaded \cap r.missing = {}
        /\ \A k \in DOMAIN r.loaded : \E w \in accepted[k] : w.payload = r.loaded[k]

\* What was in the store when load_kv began, or when a replay looked, is read
\* if nobody has written since: the prefetches of the request and of its
\* predicted chain, however long, and the reads of other threads move blocks
\* between tiers and push none out (blocks of equal size, quotas or not).
SeenIsRead ==
  \A t \in Thread :
    holder = t /\ op = "idle" /\ Calling(t, "get") /\ KeyOf(t) \in req[t].seen
      => ret.payload # NoPayload

\* A load returns what there is: every block that stayed, with a content that
\* was stored, and the rest as missing.
LoadExact == LoadAccounts /\ SeenIsRead

\* After every recording the predictions of the prefetcher are exact, for
\* every budget: PredictChain returns the path of edges from any head, and
\* PredictChainMulti the keys of the paths of its anchors, each once.
PredictionsExact ==
  ~Recording /\ (\E t \in Thread : req[t].at = "record") =>
    \A n \in Budgets :
      ChainExact(n) /\ \A a, b \in Key : MultiIsUnion(<<a, b>>, n)
================================================================================
