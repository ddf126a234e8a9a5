-------------------------------- MODULE Replay --------------------------------
(***************************************************************************)
(* BenchmarkFramework of python/bench/framework.py: replay(cfg) parses a   *)
(* trace, drives it through one cache (baseline) or through the two tiers  *)
(* of TieredSimulator (project), and reports rates, percentiles and the    *)
(* commit that python/bench/provenance.py reads from mooncake.lock.        *)
(* The baseline's pool is the variable fast; its slow tier stays empty.    *)
(* Time is counted in units of 0.05 ms, a rate is a pair of a numerator    *)
(* and a denominator.                                                      *)
(***************************************************************************)
EXTENDS TieredSimulator, Integers

CONSTANTS
  Configs,           \* RunConfigs replay may be called with
  OutputLengths,     \* output_length of the records of a trace
  MaxLines,          \* bound: lines of the trace file
  MaxCalls,          \* bound: calls of replay
  BaselinePool,      \* _BASELINE_POOL_BLOCKS
  ProjectPool,       \* _PROJECT_POOL_BLOCKS
  SlowFactor,        \* _PROJECT_SLOW_FACTOR
  ProjectDepth,      \* _PROJECT_PREFETCH_DEPTH
  LockFiles          \* what mooncake.lock may be: is_file, and its text

ASSUME ReplayAssumption ==
  /\ \A c \in Configs : /\ c.target \in {"baseline", "project"}
                        /\ c.policy \in PolicyNames \cup {""}
                        /\ c.prefetch \in BOOLEAN
  /\ BaselinePool \in Nat \ {0} /\ ProjectPool \in Nat \ {0}
  /\ SlowFactor \in Nat \ {0} /\ ProjectDepth \in Nat /\ MaxLines \in Nat
  /\ OutputLengths \subseteq Int
  /\ \A file \in LockFiles :
       file.text \in Seq({<<>>} \cup (STRING \X STRING))

VARIABLES
  lines,    \* the lines of the trace file
  cfg,      \* RunConfig of the running replay, NoConfig when none runs
  step,     \* arrival_index of the record it is at, from 1
  log,      \* AccessLog.events
  ttft,     \* ttft_samples
  e2e,      \* e2e_samples
  tokens,   \* total_tokens
  reports   \* what the calls have returned or raised

samples == <<log, ttft, e2e, tokens>>
replay_vars == <<vars, lines, cfg, step, samples, reports>>

NoConfig == [target |-> "none"]

----------------------------------------------------------------------------
(* parse_trace and build_replay_plan *)

Records == [kind : {"record"}, hash_ids : Requests, output_length : OutputLengths]
Lines == Records \cup [kind : {"blank", "malformed"}]

\* Blank lines are passed over.
parse_trace_lines(ls) ==
  LET records[i \in 0..Len(ls)] ==
        IF i = 0 THEN <<>>
        ELSE IF ls[i].kind = "blank" THEN records[i - 1]
        ELSE Append(records[i - 1], ls[i])
  IN  records[Len(ls)]

Malformed(ls) == \E i \in DOMAIN ls : ls[i].kind = "malformed"

\* A record of n blocks has n blocks of input.
InputLength(record) == Len(record.hash_ids)

plan == parse_trace_lines(lines)

----------------------------------------------------------------------------
(* Metrics *)

Prefill == 80   \* prefill_ms_per_block
Transfer == 10  \* promote_ms_per_block

Count(outcome) == Cardinality({i \in DOMAIN block_hits : block_hits[i] = outcome})

\* A request costs at least one block's prefill.
TimeToFirst ==
  AtLeast(Prefill, Count("miss") * Prefill + Count("slow") * Transfer)

\* Mutant: the rank is rounded down.
rank_Down(p, n) == AtLeast(1, (p * n) \div 100)

rank(p, n) == AtLeast(1, (p * n + 99) \div 100)

sorted(s) ==
  LET p == CHOOSE p \in Bijection(DOMAIN s, DOMAIN s) :
             \A i, j \in DOMAIN s : i < j => s[p[i]] <= s[p[j]]
  IN  [i \in DOMAIN s |-> s[p[i]]]

percentiles(s) ==
  LET ordered == sorted(s)
      nearest_rank(p) == ordered[rank(p, Len(s))]
  IN  IF s = <<>> THEN [p50 |-> 0, p90 |-> 0, p99 |-> 0]
      ELSE [p50 |-> nearest_rank(50), p90 |-> nearest_rank(90), p99 |-> nearest_rank(99)]

Sum(s) == FoldSeq(LAMBDA a, b : a + b, 0, s)

rates(events) ==
  LET hits == {i \in DOMAIN events : events[i].hit}
      Blocks(I) == {events[i].hash_id : i \in I}
  IN  IF events = <<>> THEN [hit |-> <<0, 1>>, reuse |-> <<0, 1>>]
      ELSE [hit |-> <<Cardinality(hits), Len(events)>>,
            reuse |-> <<Cardinality(Blocks(hits)), Cardinality(Blocks(DOMAIN events))>>]

----------------------------------------------------------------------------
(* provenance.py: a line of mooncake.lock is <<key, value>>, or <<>> if it  *)
(* is a comment, empty or not an assignment.                                *)

RequiredKeys == {"mooncake_commit", "mooncake_version"}

\* Mutant: the first assignment of a key stays.
Assign_First(fields, line) ==
  IF line = <<>> \/ line[1] \in DOMAIN fields THEN fields
  ELSE [k \in DOMAIN fields \cup {line[1]} |->
          IF k = line[1] THEN line[2] ELSE fields[k]]

Assign(fields, line) ==
  IF line = <<>> THEN fields
  ELSE [k \in DOMAIN fields \cup {line[1]} |->
          IF k = line[1] THEN line[2] ELSE fields[k]]

parse_lock_text(text) ==
  LET fields[i \in 0..Len(text)] ==
        IF i = 0 THEN [k \in {} |-> ""] ELSE Assign(fields[i - 1], text[i])
  IN  fields[Len(text)]

\* A lock that cannot be used: FileNotFoundError or ValueError.
LockRaises(file) ==
  file.is_file => ~(RequiredKeys \subseteq DOMAIN parse_lock_text(file.text))

read_mooncake_lock(file) == parse_lock_text(file.text)["mooncake_commit"]

----------------------------------------------------------------------------
(* BenchmarkFramework.replay *)

RequiredCapability ==
  [rdma_transfer_bench |-> "rdma", gpu_direct_bench |-> "gpu_direct",
   nvme_tier_bench |-> "nvme"]

Pool(c) == IF c.target = "project" THEN ProjectPool ELSE BaselinePool

PolicyName(c) ==
  CASE c.policy # "" -> c.policy
    [] c.policy = "" /\ c.target = "project" -> "s3fifo"
    [] c.policy = "" /\ c.target = "baseline" -> "lru"

ReplayInit ==
  /\ lines \in UNION {[1..n -> Lines] : n \in 0..MaxLines}
  /\ cfg = NoConfig /\ step = 1
  /\ log = <<>> /\ ttft = <<>> /\ e2e = <<>> /\ tokens = 0
  /\ reports = <<>>
  /\ fast = make_policy("lru", 1) /\ slow = make_policy("lru", 1)
  /\ depth = 0 /\ successor = [k \in {} |-> NoKey]
  /\ request = <<>> /\ phase = "idle" /\ turn = 1 /\ block_hits = <<>>

\* Mutant: the slow tier of the call before is used again.
Fresh_WarmSlow(c) ==
  /\ fast' = make_policy(PolicyName(c), Pool(c))
  /\ slow' = [slow EXCEPT !.capacity = Pool(c) * SlowFactor]
  /\ depth' = IF c.target = "project" /\ c.prefetch THEN ProjectDepth ELSE 0
  /\ successor' = [k \in {} |-> NoKey]
  /\ log' = <<>> /\ ttft' = <<>> /\ e2e' = <<>> /\ tokens' = 0

\* Mutant: the successors of the call before are known.
Fresh_WarmGraph(c) ==
  /\ fast' = make_policy(PolicyName(c), Pool(c))
  /\ slow' = make_policy("lru", Pool(c) * SlowFactor)
  /\ depth' = IF c.target = "project" /\ c.prefetch THEN ProjectDepth ELSE 0
  /\ log' = <<>> /\ ttft' = <<>> /\ e2e' = <<>> /\ tokens' = 0
  /\ UNCHANGED successor

\* The caches and the samples of a call are its own.
Fresh(c) ==
  /\ fast' = make_policy(PolicyName(c), Pool(c))
  /\ slow' = make_policy("lru", Pool(c) * SlowFactor)
  /\ depth' = IF c.target = "project" /\ c.prefetch THEN ProjectDepth ELSE 0
  /\ successor' = [k \in {} |-> NoKey]
  /\ log' = <<>> /\ ttft' = <<>> /\ e2e' = <<>> /\ tokens' = 0

Call(c) ==
  /\ cfg = NoConfig /\ Len(reports) < MaxCalls
  /\ ~Malformed(lines)
  /\ cfg' = c /\ step' = 1
  /\ Fresh(c)
  /\ UNCHANGED <<lines, request, phase, turn, block_hits, reports>>

\* json.loads raises before anything is replayed.
CallRaises(c) ==
  /\ cfg = NoConfig /\ Len(reports) < MaxCalls
  /\ Malformed(lines)
  /\ reports' = Append(reports, [config |-> c, raised |-> TRUE])
  /\ UNCHANGED <<vars, lines, cfg, step, samples>>

Running == cfg # NoConfig

NextRecord ==
  /\ Running /\ step <= Len(plan)
  /\ Arrive(plan[step].hash_ids)
  /\ UNCHANGED <<lines, cfg, step, samples, reports>>

Tiered ==
  /\ Running /\ cfg.target = "project"
  /\ PrefetchAnchor \/ AccessBlock
  /\ UNCHANGED <<lines, cfg, step, samples, reports>>

\* policy.access of the baseline, which knows the index of the block.
PoolAccess ==
  /\ Running /\ cfg.target = "baseline"
  /\ phase = "access" /\ turn <= Len(request)
  /\ fast' = access(fast, request[turn], turn - 1).policy
  /\ block_hits' = Append(block_hits, IF contains(fast, request[turn]) THEN "fast"
                                                                      ELSE "miss")
  /\ turn' = turn + 1
  /\ UNCHANGED <<slow, depth, successor, request, phase,
                 lines, cfg, step, samples, reports>>

\* The end of a record: its samples are taken.
EndRecord ==
  /\ Running /\ Return
  /\ log' = log \o [i \in DOMAIN request |->
                      [hash_id |-> request[i], hit |-> block_hits[i] # "miss"]]
  /\ ttft' = Append(ttft, TimeToFirst)
  /\ e2e' = Append(e2e, TimeToFirst + plan[step].output_length)
  /\ tokens' = tokens + InputLength(plan[step]) + plan[step].output_length
  /\ step' = step + 1
  /\ UNCHANGED <<lines, cfg, reports>>

Finished ==
  /\ Running /\ phase = "idle" /\ step > Len(plan)
  /\ cfg' = NoConfig
  /\ UNCHANGED <<vars, lines, step, samples>>

\* lock is kept in the report for the properties only.
Report(lock) ==
  /\ Finished
  /\ cfg.mooncake_commit = "" => ~LockRaises(lock)
  /\ reports' = Append(reports,
       [config |-> cfg, raised |-> FALSE, lock |-> lock,
        mooncake_commit |-> IF cfg.mooncake_commit # "" THEN cfg.mooncake_commit
                            ELSE read_mooncake_lock(lock),
        throughput |-> IF plan = <<>> THEN <<0, 1>> ELSE <<tokens, Sum(e2e)>>,
        ttft |-> percentiles(ttft), e2e |-> percentiles(e2e),
        rates |-> rates(log), log |-> log,
        skipped |-> {b \in DOMAIN RequiredCapability :
                       RequiredCapability[b] \notin cfg.hardware}])

\* The replay is done when the lock turns out to be unusable.
ReportRaises(lock) ==
  /\ Finished
  /\ cfg.mooncake_commit = "" /\ LockRaises(lock)
  /\ reports' = Append(reports, [config |-> cfg, raised |-> TRUE])

ReplayNext ==
  \/ \E c \in Configs : Call(c) \/ CallRaises(c)
  \/ NextRecord \/ Tiered \/ PoolAccess \/ EndRecord
  \/ \E lock \in LockFiles : Report(lock) \/ ReportRaises(lock)

ReplaySpec == ReplayInit /\ [][ReplayNext]_replay_vars

----------------------------------------------------------------------------
(* Properties *)

Returned == {i \in DOMAIN reports : ~reports[i].raised}

\* A block is never a hit before it has been accessed in the same replay, so
\* a report's hits and the distinct blocks of its trace are at most its
\* accesses: nothing is left over from an earlier replay, and prefetching
\* brings in no block from nowhere.
CompulsoryMisses ==
  \A i \in DOMAIN log : log[i].hit => \E j \in 1..(i - 1) : log[j].hash_id = log[i].hash_id

\* The reference for a percentile: the smallest sample that p per cent of the
\* samples do not exceed.
IsPercentile(v, p, s) ==
  LET AtMostOf(x) == Cardinality({i \in DOMAIN s : s[i] <= x})
  IN  /\ v \in Range(s)
      /\ 100 * AtMostOf(v) >= p * Len(s)
      /\ \A x \in Range(s) : 100 * AtMostOf(x) >= p * Len(s) => v <= x

ArePercentiles(q, s) ==
  s # <<>> => /\ IsPercentile(q.p50, 50, s) /\ IsPercentile(q.p90, 90, s)
              /\ IsPercentile(q.p99, 99, s)

\* A report has one sample per record of the trace, its percentiles are those
\* of the samples, its log has every block of the trace in order, whatever
\* the caches did, and some block was reused if and only if there was a hit.
ReportSound ==
  \A i \in Returned : i = Len(reports) /\ cfg = NoConfig =>
    LET r == reports[i]
    IN  /\ Len(ttft) = Len(plan) /\ Len(e2e) = Len(plan)
        /\ ArePercentiles(r.ttft, ttft) /\ ArePercentiles(r.e2e, e2e)
        /\ [j \in DOMAIN r.log |-> r.log[j].hash_id] =
             FlattenSeq([j \in DOMAIN plan |-> plan[j].hash_ids])
        /\ r.rates.hit[1] > 0 <=> r.rates.reuse[1] > 0

\* Replaying the same trace with the same configuration and lock gives the
\* same report, whatever was replayed in between.
Reproducible ==
  \A i, j \in Returned :
    reports[i].config = reports[j].config /\ reports[i].lock = reports[j].lock =>
      reports[i] = reports[j]

\* The commit in a report is the one the caller gave or the last one that
\* mooncake.lock assigns, and that file then names a version too.
CommitTraced ==
  \A i \in Returned :
    LET r == reports[i]
        text == r.lock.text
        of(key) == {n \in DOMAIN text : text[n] # <<>> /\ text[n][1] = key}
    IN  IF r.config.mooncake_commit # "" THEN r.mooncake_commit = r.config.mooncake_commit
        ELSE /\ r.lock.is_file /\ of("mooncake_version") # {}
             /\ r.mooncake_commit = text[Max(of("mooncake_commit"))][2]

PlainLruConfig(c) == PolicyName(c) = "lru" /\ (c.target = "project" => ~c.prefetch)

\* On the same trace two LRU tiers without prefetch hit wherever an LRU pool
\* that is no larger than both together hits: the comparison of project and
\* baseline never charges the tiers for being two.
LargerLruHits ==
  \A i, j \in Returned :
    LET p == reports[i]  b == reports[j]
    IN  /\ PlainLruConfig(p.config) /\ PlainLruConfig(b.config)
        /\ p.config.target = "project" /\ b.config.target = "baseline"
        /\ BaselinePool <= ProjectPool * (1 + SlowFactor)
        => \A n \in DOMAIN b.log : b.log[n].hit => p.log[n].hit
==============================================================================
