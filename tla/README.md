# Verification of the Mooncake KVCache tiered storage

TLA+ models of the project's own code: the tiered block store, the prefix
prefetcher, the data path over the Mooncake Transfer Engine, the scheduler and
its cross-node index, the fair-share allocation, the eviction policy for vLLM's
CPU offloading, the vLLM connector that ties them together, and the benchmark
framework, simulators and scripts the project measures itself with. TLC checks
them on small instances, TLAPS proves the most important properties for every
value of the constants. Paths are relative to the repository root.

## 1. Inventory

| Component | State | Operations | Module |
|---|---|---|---|
| Tiered storage manager, `src/storage/tiered_storage_manager.*` | block map, bytes per tier, S3-FIFO queues of the fastest tier, LRU index of the others, ghost queue, books per tenant, logical clock; one mutex | Write, Read, Prefetch, EnforceCapacity (Locate, Occupancy and Stats only read) | `TieredStorage`, `TieredStorageCalls`, `BlockCache` |
| Prefix prefetcher, `src/storage/prefix_prefetcher.*` | successor edges, roll-out queue; one mutex | RecordSequence, PredictChain, PredictChainMulti | `PrefixPrefetcher` |
| vLLM connector, `python/vllm_adapter/connector.py` | none of its own; the request a thread is working on | store_kv, load_kv | `Connector` |
| Python bindings, `src/bindings/bindings.cpp` | store, prefetcher, index; the interpreter lock | put, get, exists, prefetch, record_sequence, prefetch_chain_multi, register_block | `Connector` |
| Replays on the C++ store, `python/bench/replay_cpp.py`, `replay_multitenant.py` | position in the trace | one record after the other, tenants in turns | `Connector` |
| Data path, `src/datapath/data_path.*` | bounded queue, shut-down flag, worker thread, promises | TransferAsync, worker loop, destructor | `DataPath` |
| Transfer backend, `src/adapter/mooncake_transfer_backend.*` | live registrations, one asynchronous task per submission | RegisterBuffer, DeregisterBuffer, SubmitAsync | `DataPath` (below the queue) |
| Registration guard, `ScopedRegistration` in `data_path.*` | handle and validity flag | construct, move, assign, destroy | `ScopedRegistration` |
| Scheduler and index, `src/scheduler/scheduler.*` | holders per key, cluster view, a lock for each | Register, Unregister, Lookup, UpdateClusterState, Route, ChoosePlacementNode, ResolveOnFailure | `Scheduler` |
| Fair shares, `Scheduler::AllocateFairShare` | none (an algorithm) | one call | `FairShare` |
| vLLM eviction policy, `python/vllm_adapter/offloading_spec.py` | small, main and ghost queues, frequencies, evictable set | insert, remove, touch, evict, clear, mark | `OffloadPolicy` |
| Cache policies of the benchmark, `python/bench/policies.py` | queues, visited bits, frequencies, block indexes of five policies | contains, touch, admit, remove, access | `CachePolicies` |
| Tier simulator, `python/bench/tiered.py` | two policies, successor map | process_request | `TieredSimulator`, `LruCache` |
| Benchmark framework, `python/bench/framework.py`, `provenance.py` | access log, samples, reports | replay, percentiles, rates, read_mooncake_lock | `Replay` |
| Online benchmark, `scripts/bench_online.py` | tasks of an event loop, semaphore, shared generator, results | sessions, scanners, gather, report | `BenchOnline` |
| Sharded store, `src/storage/sharded_tiered_store.h` | one store per shard | the store's, by hash | planned |
| Block codec, `DataPath::Serialize`, `Deserialize` | none | encode, decode | planned |

How they interact: vLLM calls the connector, which writes and reads the tiered
store through the bindings, records key sequences with the prefetcher, asks it
for chains and hands them to the store's Prefetch, and registers every block it
stores with the cross-node index, from which the scheduler routes requests. The
data path moves blocks between registered buffers through the transfer backend;
its callers hold `ScopedRegistration` guards while a transfer runs. The
offloading policy is used by vLLM's own manager, apart from the rest. The
benchmark framework replays traces through simulated policies and tiers, the
replay scripts through the C++ store itself, and the online benchmark loads a
running server over HTTP.

What is hard in this code:

* *Store.* One call is one critical section, but inside it an eviction cascade
  walks over the tiers, each demotion can fill the next tier, and the block the
  call is about can be its own victim. The S3-FIFO queues are invalidated
  lazily, the LRU indexes are keyed by fields that change, byte counters are
  unsigned and decremented unchecked, quotas are judged by a second set of books.
* *Connector.* A request is a series of calls; other threads get in between any
  two of them. A put may raise half-way, a prefetch may push out what the
  request is about, and the index is told after the store.
* *Data path.* Callers, worker, engine and destructor interleave; the
  notification follows the unlock; a transfer may outlast its deadline; the
  caller may release its buffers while the engine still moves data.
* *Scheduler.* Route takes one lock for the view and one per key: what it
  decides on never existed at one moment.
* *Prefetcher, policy, fair shares.* Limits and rounding: a table at its limit
  in the middle of a sequence, an eviction that gives up half-way, shares that
  round to zero. All three loops must end.
* *Simulators and reports.* The eviction callback of one tier admits to the
  other while a promotion is under way; state that outlives a replay, a rank off
  by one or a commit read from the wrong line would only make a number wrong.
* *Online benchmark.* Coroutines share a generator and a semaphore across
  awaits; a waiter that is woken holds the queue until it runs, so that a task
  may be queued with a permit free; whoever fails or is cancelled, in a request
  or on the way to one, has to give its permit back, and must not leave a report
  of half the load.

What makes each part correct: the store never exceeds its high-water marks once
enforcement has returned, its books agree with its blocks, a victim is always
found, every call returns, and to its callers it is a cache of the last accepted
writes; the prefetcher's queue and table agree, and its chains are paths of
edges; the index knows every stored block, and a load misses only what was not
there to be found; every accepted transfer is answered once, truthfully, and
before the destructor returns; guards and registrations correspond one to one;
Route reuses what it can in spite of concurrent changes; fair shares neither
over-commit nor waste; evict() takes exactly what it was asked for or nothing;
simulated tiers neither double nor lose a block, reports are exact functions of
trace and configuration.

`PROJECT.json` lists every hazard with its line and the properties that cover it.

## 2. Modules and their correspondence to the code

Variables carry the names of the members they stand for (`smallFifo` is
`s3_small_fifo_`); each action is a function, a branch of it or one turn of its
loop; `PROJECT.json` maps every definition to its lines. Definitions named
`X_Something`, marked *Mutant*, are plausible slips of `X`; no specification
uses them, each shows that a property notices the slip.

**TieredStorage.** `op` is the call that holds `mu_` (idle when nobody does),
`todo` the keys it still has to serve, `frames` the tiers whose
`EnforceCapacityLocked` is active (recursion goes to ever slower tiers, so a
set is enough). Each turn of the eviction loop and of the S3-FIFO loop is a
step, so the invariants hold in the middle of a cascade. `Resettle` is
`RemoveLocked` plus the insertion that follows, with all its books. Double
arithmetic of thresholds and shares is exact rational arithmetic.
`kGhostCapacity`, the tiers, capacities, water mark, tenants and weights are
constants. `MaxClock` bounds the calls: none that ticks the clock starts at it.

**TieredStorageCalls** adds histories (what was last written, which block the
running call has placed) and states what callers see. **BlockCache** is the abstract
specification: puts, drops, hits and empty answers. The refinement mapping
takes `cached` to the resident keys and `reply` to the last return.

**PrefixPrefetcher.** One step per edge and per rolled-out edge. The loops of
the predictions are recursive functions.

**Connector** composes the two: it extends `PrefixPrefetcher`, instantiates
`TieredStorage`, and adds the index. The bindings keep the interpreter lock, so
a call into the core runs to its end (`holder` is the thread inside), while
threads interleave between the calls of store_kv and load_kv. `client` chooses
the program above the core for a whole behaviour: the connector with two
threads, the replay of one trace, the replay of two tenants in turns, or a
direct caller that records any sequences. A put that raises ends the request, as
the Python exception does. The blocks of one request have distinct keys.

**DataPath.** Every request has a caller thread. Critical sections are steps;
`notify_one`, the wait (with spurious wake-ups), submission, each engine call of
the task and each stage of the destructor are steps of their own. The engine
(external) completes or fails a running transfer at any time or never; a
submission that fails may have started to move data, as the vendored RDMA
transport posts slices while it still cuts the rest (`rdma_transport.cpp:314`); a
batch with an unfinished task cannot be freed, as in `multi_transport.cpp`. In
the vendored version `allocateBatchID` and `getTransferStatus` do not fail; the
backend checks for it, and the model lets them. Time is abstracted: the deadline
may pass at any poll.

**ScopedRegistration.** A set of guard objects over the backend's table; move
assignment, self-assignment and failed construction included. It has a theorem
and no run.

**Scheduler.** One step per lock. A cluster view gives each listed node its
reachability, its load and its own high-water mark, as `NodeState` does, so the
least loaded node may be at its mark while a busier one is below. `during`
remembers for each key the nodes that held it all the time, and at some time,
while Route ran.

**FairShare.** One step per pass of the loop. Weights are natural numbers and
division is exact; with products below 2^53 the code's doubles truncate to the
same shares. AllocateFairShare uses its arguments only, so `MCScheduler` checks
its calls and those of the index and Route in one run, one beside the other.

**OffloadPolicy.** One step per turn of the loop of evict(). vLLM's manager
(external) calls the policy in any order the interface allows.

**CachePolicies.** LRU, SIEVE, S3-FIFO, prefix-aware LRU and S3-FIFO with
prefix-aware admission as operators on a record; an admission yields the policy
and the key it hands to `on_evict`. **TieredSimulator** runs two of them, one
step per anchor of the prefetch and per block accessed. **LruCache** is the
abstract specification of the case in which both tiers are LRU: one list of the
blocks used last, as long as both tiers together.

**Replay.** One call of `replay` parses the trace, replays it block by block
through the baseline's pool or the simulator, and ends in a report or an error;
a behaviour is a sequence of calls on one trace. Latencies are whole numbers of
0.05 ms (all costs of the code are), rates are pairs of numerator and
denominator, so nothing is rounded that the code does not round.

**BenchOnline.** Each action is what a task does from one await to the next. A
text is named after where it was drawn, so two prompts are equal exactly if the
program would make them equal. The server (external) sends chunks, ends a
stream, or fails at any time. The semaphore (external) is asyncio's as of Python
3.11, the version of `.github/workflows/ci.yml`: `release` sets a permit aside
for the first waiter that has none (`WakeUpNext`); the waiter stays in the queue,
and newcomers queue behind it (`Locked`), until it runs, takes itself out and
wakes the next one if there is a permit more (`Acquired`). When gather has failed
and the client session is closed, asyncio.run cancels what is left: `Cancel`
cancels the waiters that were not woken, then `Unwind` raises CancelledError in
one task after the other, where it waits, and each gives back what it has;
`Quit` ends the program when all have.

MC modules hold sizes, capacities, configurations and symmetry sets; a module that
needs none is run as it is.

## 3. Runs

| Run | Instance | Properties, and what they show |
|---|---|---|
| store_tiers | 3 keys, 3 tiers, payloads of 5, 7 and 11 bytes, prefetch lists of up to 2, 5 ticks | `CapacityBound` high-water marks; `CacheSpec` refinement of `BlockCache`; `CallsKeepBlocks` no call loses the block it has just placed to the enforcement that this starts, if the next tier can hold it |
| store_quota | 3 keys, 2 tiers of 10 bytes with the mark at one half, payloads of 1 and 5 bytes, 2 tenants of which one has a weight, ghost queue of 1, 5 ticks | `ByteAccounting`, `IndexSync` books and indexes equal the blocks; `QueuesSound` lazy queues lose no block, recencies are unique, ghosts bounded; `VictimFound`; `QuotaFirst` the tenant over its share goes first; `CallsAdvance` each step brings the return of the call nearer |
| connector | 4 keys, 3 of them in requests of up to 2 blocks, 2 threads, 3 requests, HBM and DRAM of one block each and one payload too large for both, 3 edges | `IndexCoversStore` nothing is stored behind the index; `ChainsWereStored` no edge to a block never stored; `LoadExact` a load finds all that stayed; `TableSound`, `PredictionsExact` the prefetcher's table and chains |
| datapath | 2 requests, capacity 0 (counts as 1) or 2, fairness | `AcceptedInOrder`; `AnswerTruthful` a receipt means a completed transfer of one's own block, a call turned away moved nothing, no answer names another's block; `WaitingRegistered` buffers registered while the caller waits; `AnsweredOnce`; `Progress` every accepted request is answered and the destructor returns |
| scheduler | 2 keys, 2 nodes, 8 cluster views with a mark for each node, prefix reuse on and off; 3 tenants, demands to 5, weights to 2, capacity to 11, fairness of the loop | `RouteReuses` reuse in spite of concurrent changes; `PlacementAvoidsOverload` no node at its mark while another is below its own; `SharesSound` no over-commitment, no waste; `EqualWeightFair`; `Returns` |
| offload_evict | 3 keys, 2 slots, 2 touches, up to 3 victims, fairness | `BooksAgree` queues partition the blocks and ghosts are gone; `EvictExact`; `EvictReturns` |
| bench_tiers | 3 blocks, fast tier of 1 or 2, slow tier of 1, 4 policies over 3, prefetch off and on, requests of up to 2 blocks, traces of any length | `TiersSound` no block in both tiers; `BlocksConserved` none doubled or lost by moving; `TwoTiersAreOneLru` refinement of `LruCache` |
| bench_report | 4 blocks, traces of up to 3 lines (blank and malformed ones too), 5 configurations, 4 lock files, 2 replays | `CompulsoryMisses`; `ReportSound` samples, percentiles, log and rates against reference definitions; `Reproducible`; `CommitTraced`; `LargerLruHits` tiers hit wherever a smaller pool does |
| bench_online | 6 command lines with up to 4 tasks, 1 or 2 permits, up to 3 rounds, 1 chunk, fairness | `PermitsConserved` each permit is free, set aside or with a request, no free one is overlooked, all are back at the end; `FirstPromptsFixed` the first prompts depend on the seed alone; `PrefixReuse` a prompt extends the session's last one; `ReportComplete` a report covers the whole load; `Ends` |
| offload_ghost | as offload_evict, smaller | *violation*: a ghost hit is not admitted to the main queue |
| datapath_batch | 2 requests | *violation*: an answered transfer may keep its batch for ever |
| datapath_key | 2 requests | *violation*: the error of a failed transfer may name no block |

Why the bounds are enough. *Store:* with HBM at 10 bytes (mark 9), DRAM at 6
(mark 5) and NVMe at 14 (mark 12) two 5-byte blocks overflow HBM and DRAM, so
three keys drive a cascade through all tiers; the 7-byte payload fits HBM and
not DRAM, the 11-byte one NVMe only. Five ticks are enough for two writes, a
cascade and a promotion of the block that went through it. With the mark at 5
and blocks of 1 and 5 bytes several blocks share the main queue of HBM, lose
their place to a quota and leave stale entries there. *Connector:* with
room for two blocks in all, a third write drops one and a promotion demotes one;
two blocks per request let a put raise after a stored block; three edges are
fewer than the fourth key can add, so recordings roll edges out in the middle of
a sequence and cycles off the head occur. *Data path:* two requests put one in
flight and one in the queue, or have one refused; both meet the shut-down at any
moment. *Scheduler:* two keys are the fewest for which a block moves between
two lookups; the views have each node unlisted, down, below and at its mark, and
the less loaded node at its mark while the other is below its own. *Fair shares:*
three tenants are the fewest of which one is met while two still compete.
*Offloading:* pins, protection and second chances interact with two blocks; the
ghost queue (twice the capacity) is never full in this instance. *Simulators:*
three blocks for two or three places make every promotion demote and every
demotion evict; candidate window, frequency cap and admission depth are scaled
with them. *Online benchmark:* fewer permits than tasks, sessions that share
their permits with a scanner, and more requests than tasks; two permits and four
tasks let one task release and ask again while a woken one has not run; no rounds
and too few conversations are among the command lines.

Symmetry is used for keys, requested keys and threads, only in runs without
liveness properties.

Fairness. Data path: worker, task, destructor and a caller that has to notify
keep running, and the deadline of a poll passes; nothing is assumed of the
engine, of new calls or of spurious wake-ups. evict() and the fair-share loop
are straight-line code and keep running. Online benchmark: the event loop runs
every task that is ready, and the time limit of a request passes if nothing else
ends it. The store needs no fairness: `CallsAdvance` is an action property, a
measure that every step under the lock makes smaller, and nothing under the lock
waits. Deadlock is not checked where the program is meant to stop: data path
(ends with its destructor), scheduler (beside a call of AllocateFairShare, which
ends), online benchmark (ends with
its report), and the runs that bound their number of requests or replays.

## 4. Proofs

*TieredStorageProofs*: `TypeCorrect`, `CapacityBounded`, `BytesAccounted`,
`IndexesInSync`, `VictimAlwaysFound` and `CallsReturn` hold for every finite set
of keys, payload sizes, tiers, capacities, water mark, tenants, weights and
ghost size, from the named assumptions of the module. `CapacityBound` is not
inductive: a frame of `EnforceCapacityLocked` is left either below the mark or
for want of a victim, so it needs `VictimFound`; a victim is found because an
over-full tier holds a block with bytes (`ByteAccounting`) that the indexes
(`IndexSync`) or the queues (`QueueCoverage`) know of. The invariant `Inv` is
the conjunction of these with `TypeOK`. Byte sums are cardinalities of sets of
bytes, so that replacing one record is a fact about finite sets and not an
induction. The lemma `ResettleInv` carries the books through every action; what
is left per action concerns the queues and the frames.

`CallsReturn` is `Spec => CallsAdvance`: under the same invariant each step that
does not end its call makes a lexicographic measure smaller. Its parts are the
keys still to be served, the demotions still possible (the tiers below each
block), the second chances left in the main queue, the queue entries and the
active frames. There is a lemma for each part and one for the eviction step
(`EvictAdvances`) that puts them together. This is the part of termination the
prover can state; that a natural number cannot fall for ever is left to the
reader.

`PolicySound` is `QueuesSound`. It adds to `Inv` that recencies are unique and
behind the clock, which no single call shows: an old block keeps its stamp
through any number of demotions. `QuotaProtects` follows from the books (the
shares are judged by counters, the property by the blocks). `StoreIsCache` is
the refinement of `BlockCache`, an action at a time: under `Inv` with the
history of writes, every step puts, drops, answers or stutters.
`PlacedBlocksKept` needs to know where a placed block can be while its cascade
runs (`Held`): in the fastest tier, where its own bytes are all that can be too
much, or in the next one, where it is the newest and no other block follows, so
that LRU takes it only when it is alone, and alone it fits.

`OnlyWritesDrop` is `Spec => ReadsKeepBlocks`: if the blocks that tiers accept have
one size and every tier can hold one (`OneSize`), no step outside a Write loses a
block, with quotas and without. That nothing is lost now says nothing of the next
turn of the loop. The invariant (`Hole`) follows the free place a promotion leaves:
outside a Write only the innermost enforced tier is over its mark, by one block at
most, and some slower tier has room for one; each demotion fills that place or
makes the next tier the one that is over, above the same place.

*ConnectorProofs*: for any threads, keys, payloads, tiers and tenants,
`IndexSound`, `ChainsSound` and `LoadsAccounted` (every key a load has been
through is loaded or missing, never both, and what was loaded was accepted for
that key: the first half of `LoadExact`). `ClientsRecord` says that all clients
together implement the specification of the prefetcher, so that `TableSound`
carries over (`ClientsKeepTable`). `IndexCoversStore` is not inductive: an
enforcement that removed a block through an index entry of another one would
keep it true and break it later. The invariant has the part of the store's own
invariant its clients rest on (`Indexed`: an index entry is that of a block that
is there), what each thread's request has reached (`Threads`, with the keys
already written), that the store holds only what was accepted (`Backed`), that
the call inside the store answers for the key it was asked (`Answered`) and that
a sequence being recorded was stored (`RecordedStored`). It is inductive only
together with the prefetcher's invariant, as both share `todo`.

`LoadsExact` is `LoadExact` for blocks of one size: a load, and a replay that has
looked, reads what was there and no put has followed. Its invariant (`SeenInv`)
keeps what each request has seen within what the store holds, across the calls of
all threads, and the call in progress on the way to that block. The prover cannot
cite the theorems of an instantiated module, so what the connector needs of its
store is the premise of the theorem, in the form in which TieredStorageProofs
proves it (`TypeCorrect`, `VictimAlwaysFound`, `OnlyWritesDrop`), and
`ClientsUseStore` is what makes the premise apply.

`ClientsUseStore`: what the clients do to the store is a behaviour of the store's
own specification, so that all theorems of *TieredStorageProofs* hold beneath
them. That needs that every call carries keys and payloads the store knows
(`Carried`), and that a predicted chain is a list of distinct keys, no longer
than there are keys. `ChainsExact` and `PredictionsSound` are about the chains
themselves: after i turns of its loop the walk holds a path of at most i edges
from the head that does not come back to it; it has i of them as long as it goes
on, and has stopped only where there is no edge onward or the edge leads back to
the head (`WalkExact`); the chain of several anchors has the keys of theirs, each
once (`MergeAdds`).

Its first part is about the prefetcher alone: `TableKept`, from `QueueInStep`,
`TableBounded` and `NewestKept`, for every set of keys, limit and sequence
length. `EdgesBounded` alone is not inductive: the invariant adds that the table
is finite and at most one edge above the limit, and that the queue holds exactly
the keys with an edge, so that a roll-out makes the table smaller.

*DataPathProofs*: `OrderKept`, `AnswersTrue`, `BuffersRegistered` and
`OneAnswer`, for any set of requests, capacity and interleaving. The invariant
adds who has which item (`Roles`), which futures are still open (`Futures`: no
promise is both in the queue and with the worker, or in the queue twice), and
what the engine and the answer of a running task can be (`Transfers`,
`Answered`): a failed submission leaves the engine idle or running, and only the
ways out before the submission promise that nothing has moved. The worker returns only with the queue empty and closed, so the
destructor finds nothing left to answer. At its end, about `ScopedRegistration`:
`RegistrationsPaired`, for every set of guards; `TypeOK` and `Paired` are
inductive together.

*SchedulerProofs*: `RouteSound` and `PlacementSound`, for any keys, nodes and
cluster views. `Witnessed` relates each count of Route to what the index held
between the start of the call and the lookup: what is counted was there at some
time, what was there all the time is counted. Best and least-loaded node come
from the least member of a set of numbers; the marks of the nodes are unrelated,
so that `PlacementSound` rests on the filter of ChoosePlacementNode.

*BenchOnlineProofs*: `PermitsSafe`, `FirstPromptsSame`, `ReportSound` and
`ReuseSound`, for any number of sessions, scanners, rounds and permits. The
invariant of the semaphore (`InOrder`, `Attend`) adds to `PermitsConserved` that
nobody is queued twice, that the queue holds exactly the tasks that wait and,
after the cancellation, only woken ones; there is a lemma for each of its methods
and one for every way a task leaves it (`Left`: an answer, a failure in a request
or just before it, a cancellation in either place). A permit may be free while a
task waits; what is inductive is that then some woken waiter is ahead of it. The
report is complete because, as long as no task has failed, there
is a result for every round a session has behind it and a token for every chunk
(`Accounts`). That first prompts are fixed needs the order in which tasks start
(`Starting`). Token sums are cardinalities, as the byte sums of the store.

*FairShareProofs*: `CapacityShared` and `EqualsShared`, for any number of tenants,
demands, weights and capacity. That a pass hands out no more than there is
(`SharesFit`) is a double count without induction: every unit of a share, split
into as many parts as there are units of weight, has a place of its own among
the units of weight, each split into the remaining bytes. That single bytes go
to as many tenants as there are bytes (`FirstInOrder`) needs that the rank in
the order is a bijection. `EqualWeightFair` is not inductive: the invariant
`Level` adds that, as long as something is left, unmet tenants of equal weight
have the same and nobody has more; the pass of single bytes is the last one.

*OffloadPolicyProofs*: `PolicyBooksAgree` and `EvictIsExact`, for any keys,
capacity, pins and protected sets. The queues are rebuilt by filtering, so the
lemmas say what a filtered queue contains, in which order and that it has nothing
twice. `EvictExact` is about the last turn of a call; it needs at every turn that
what evict() has set aside may not be taken and what it has collected may
(`LoopInv`), and that the five queues together hold each block once (`Placed`):
then an evict() that gives up with both queues empty has collected every block
that may be taken.

*ReplayProofs*: the benchmark's caches, its two tiers and its replays, for any
blocks, any of the five policies, any capacities, traces, configurations and
lock files. What the policies promise (`WellFormed`) is carried through every
method of each of them (`admit`, `touch`, `remove`, `access`), which is most of
the work: each is a rearrangement of one or two queues. `TiersStaySound`
follows for the tiers, where the eviction callback of one is an admission to the
other, and `BlocksAreConserved` from what an admission adds and hands back.
`TwoTiersRefineLru` is the refinement of `LruCache`: a use of a block moves it to
the end of the joint order of both tiers, whichever of them holds it, and the
block in front leaves exactly if both are full. `MissesAreCompulsory` needs that
whatever a tier holds, and whatever the successors name, was accessed in this
replay; `CommitsAreTraced` that the field of a key is the value of its last line.
The prefetch of a chain and the reading of the lock file are loops over a
sequence; `LoopResult` says that the recursive function behind such a loop exists
and satisfies its equations, and `Upwards` is induction over the numbers up to a
bound, stated about a set, so that no operator has to be passed as a parameter.

The last two results compare replays. `LargerLruAlwaysHits`: an LRU queue is a
function of what was accessed and of its size (`IsLru`: what stands behind a block
is exactly what was used since), the joint order of both tiers is such a queue
(`TwoTiersRefineLru`), and of two queues of one history the larger holds what the
smaller holds (`LruIncluded`, by counting). Both replays have one history because
the log is a prefix of the blocks of the trace whatever the caches did (`Tracing`).
`ReplaysAreReproducible`: the state of a replay is written as a value and its step
as a function of it (`Onward`); the invariant `OnCourse` says that the running
replay has come from the start of its configuration along these steps alone, and
two courses from one start that have both ended are the same (`CourseUnique`).
`ReportsAreSound`: the samples have an ascending order, each sample's place being
the number of those at or before it (`OrderExists`); sorting changes no count of
samples below a value, and the rank is the least number that is p per cent of them
(`PercentileAtRank`). It assumes of the trace that output lengths are whole
numbers, as `int(obj["output_length"])` makes them.

Only model-checked:

* liveness (`EvictReturns`, `Progress`, `Returns`, `Ends`), which with fairness
  and ENABLED is beyond the prover.

## 5. Findings and remarks

Findings with a run: the ghost queue of the offloading policy has no effect
(`offloading_spec.py:63` compares the popped value, always None, with None);
after a timeout or a failed submission `freeBatchID` is refused and the batch is
never freed (`mooncake_transfer_backend.cpp:194`); and SubmitAsync leaves the
block key out of its errors for an unregistered buffer, a failed allocation of a
batch and a failed status query (`mooncake_transfer_backend.cpp:136`, `149`,
`174`), although requirement 3.6 and `data_path.cpp:228` promise it.

Met while modelling, without a run of their own:

* A victim that the next slower tier could not hold even when empty is removed,
  although NVMe might hold it (`tiered_storage_manager.cpp:311`); if it is the
  block a Read or Prefetch has just promoted, that call loses it.
  `CallsKeepBlocks` therefore speaks of blocks the next tier can hold, and
  excludes quotas. It speaks of the enforcement the block itself starts: a
  Prefetch of several keys may push one predicted block out for another.
* A block written to HBM below its mark can be its own S3-FIFO victim and end
  in DRAM (design.md, Property for requirement 2.2, says it is placed in HBM).
* After a timeout the caller's guards release buffers the engine may still use;
  `WaitingRegistered` holds only as long as the caller waits.
* PredictChainMulti can return an anchor that lies on another anchor's chain
  (the header says anchors are excluded), and at the edge limit recording a
  sequence twice is not the same as once.
* With unequal weights the bytes lost to rounding go to the heavier tenants;
  `EqualWeightFair` is stated for equal weights.
* Nothing unregisters a block the store evicts, so the index only grows
  (`connector.py:113`); `IndexCoversStore` is the direction that holds.
* The prefetch of a later block of a chain may demote an earlier one. With blocks
  of one size it moves blocks and drops none, whatever the quotas (`LoadExact`,
  `OnlyWritesDrop`); with blocks of several sizes a promotion may leave too small
  a hole behind, and a key that was there may be read as None.
* load_kv given a key twice can list it as loaded and as missing; the requests
  of the model have distinct keys.
* `_insert_main` of the benchmark's S3-FIFO may evict the block just admitted;
  `TiersSound` covers the case in which it was being promoted.
* In the tiered simulator every admission has block index 0, so `prefix_lru`
  and `s3fifo_prefix` lose what distinguishes them there.
* `docs/benchmarks/REPORT.md` calls the online load deterministic for a seed.
  The sessions share one generator, so the prompts of later rounds depend on the
  order in which answers arrive; only the first prompts are fixed.
* The online benchmark hangs with a concurrency of 0, and counts a stream that
  ends without `[DONE]` as a success.
* `shootout.py` fails with an IndexError on an empty trace.

## 6. Not modelled

The Transfer Engine beyond its batches is vendored. `SelectPath` and the
creation of the backend only choose labels and build objects. The in-memory test
doubles, value types, status texts and version constants have no behaviour of
their own. `shootout.py` prints a table of the modelled replay over the modelled
policies. Of the benchmarks, wall-clock durations, texts of reports and command
lines are left out, and the hit counters of the replay scripts. The bindings
`prefetch_chain`, `route` and `update_cluster` have no caller among the modelled
clients. The remaining scripts are remote-shell helpers. Memory ordering and
allocation failure are not modelled; keys never collide.

## 7. Plan

Done so far: the modules above. In this order, next:

1. `ShardedStore`: several `TieredStorage` behind a hash; the sum of the shards
   within the configured capacity, prefetch across shards.
2. `BlockCodec`: Serialize and Deserialize with the width of the lengths kept;
   round trip, rejection of inconsistent lengths.
3. A key in the answers of `BlockCache`, so that the refinement also ties each
   hit to the key that was asked for.
4. The engine's own table of registrations under `DeregisterBuffer`.
