# TLA+ models of disml-kv

disml-kv serves retrieval-augmented prompts from a shared KV prefix cache under
access control. A middleware filters and orders the retrieved documents, derives
a cache scope from the effective ACL of every prefix, and a block pool in the
style of vLLM's (simulated in Python, and patched into the real engine by a
plugin) shares blocks only between prompts whose chained hashes agree. Around
it stand the preparation of data and workloads, a benchmark with checkpoint files
and drivers that resume, and two scripts that check a live server.

This directory models that system in TLA+, checks the models with TLC and proves
the main invariants of its core with TLAPS. `PROJECT.json` lists the runs, the
source lines of every definition, the hazards the properties are for, and the
theorems.

Paths below are relative to the repository (`aclkv/…`, `scripts/…`).

## 1. Inventory

### Components

| Component | State it keeps | Operations | Modelled in |
|---|---|---|---|
| Prefix-cache simulator, `aclkv/simulator.py` | blocks (`ref_cnt`, `hash`, `acl`, `from_probe`), free queue, hash table, window of requests in flight, the record of the running call | `process`, `drain` | `BlockPool` |
| Replay driver and replay without scopes, `simulate`, `probe` | none of its own | feed built prompts, feed a prompt stripped of its salt for a user outside its ACL | `RagServing` |
| ACL algebra, `aclkv/acl.py` | immutable values, the directory | `of`, `intersect`, `allows`, `effective_prefix_acls`, `authorization_filter` | `ACL` |
| Scopes and wire encoding, `aclkv/scope.py` | none | scope ids, `encode_cache_salt`, `decode_cache_salt`, `scope_keys_for_block` | `PromptBuilder`, `SaltDecoding` |
| Policies, `aclkv/policies.py` | none | `plan_scopes` in five caching modes | `PromptBuilder` |
| Context builder, `aclkv/context.py` | a token cache, popularity (through the ordering) | `build`, `acl_at` | `PromptBuilder`, `ScopeSharing` |
| Ordering, `aclkv/ordering.py` | popularity counts | greedy placement, three keys, `apply_relevance_anchor`, `observe` | `Ordering` |
| Closed loop, `aclkv/bench.py` `run_closed_loop`, `client.py` | queue, results, one awaited call per worker | take, answer, gather | `ClosedLoop` |
| Policy loop, `bench.py` `amain`, `bench_policy` | checkpoint files; the server's cache and counters | scan, warm up, reset, scrape, measure, replace | `BenchRun` |
| Benchmark driver, `scripts/run_bench_matrix.sh` | result files, the server process | skip, start, measure, probe, stop, trap | `BenchMatrix` |
| Simulator sweep, `scripts/run_sim_matrix.py` | `summary.csv`, rows in memory | resume, simulate, flush | `SweepCheckpoint` |
| vLLM plugin, `aclkv/vllm_plugin.py` | the patched function | extra keys per block | `SaltDecoding` |
| Prompt pipeline, `aclkv/pipeline.py` | none | a loop over the builder | `ScopeSharing` (the requests of a run) |
| Data preparation, `aclkv/data_prep.py`, `scripts/prepare_data.py` | `corpus.jsonl`, `questions.jsonl` | `build`, `save` | `Workload` |
| Workload generator, `aclkv/workload.py`, `scripts/gen_workloads.py` | what it has loaded and drawn; the workload files | `make_directory`, `generate`, `save` | `Workload`; the files in `SweepCheckpoint` |
| Smoke test, `scripts/smoke_test_plugin.py` | the server's cache | reset, seven calls, verdict | `LiveChecks` |
| Security probe, `scripts/security_probe.py` | the server's cache, its rows | per victim: reset, honest calls, attacks; verdict | `LiveChecks` |
| Metrics, model geometry, aggregation, plots, tokenizer, answer quality, server set-up | files | — | not modelled, see section 8 |

### How they interact

Calls go one way. `build_prompts` calls `ContextBuilder.build` for each request,
which filters (acl), orders (ordering), plans scopes (policies, scope) and
returns a built prompt. `simulate` feeds built prompts to one
`PrefixCacheSimulator`; the benchmark sends the same prompts, in the same order,
to a live server whose block hashing the plugin replaced. The only state shared
between two requests is the cache (pool, free queue, table), the popularity
counts, and the files. Preparation writes a corpus and questions, the generator
reads both and writes workloads, the sweep reads those once per workload: nothing
but the files connects these programs, and nothing keeps one from writing while
another reads. There are four places with real concurrency or failure: the
workers of the closed loop interleave at every `await`; the launches of the
benchmark, of its driver and of the sweep may die between any two steps and are
resumed from files; data and workload files are written in place by programs that
may die or be run again; and requests in flight keep blocks while later ones look
up, evict and share.

### What is hard, and what makes each component correct

* **Block pool.** The hits are looked up before the stall loop and used after
  it, while the loop frees and re-queues blocks; blocks are shared by several
  requests in flight; the cap of `num_tokens - 1` produces duplicates of a hash;
  the room estimate has to subtract exactly the hits that will leave the queue.
  Correct means: reference counts equal holders, the free queue is exactly the
  unreferenced blocks, a hash never leads to other content, looked-up hits stay
  valid, allocation never meets an empty queue, a request is rejected only if it
  can never fit, and every request is answered with its longest cached prefix.
* **ACLs, scopes, builder.** A user atom hides group atoms, barriers may fall
  into the middle of a block, padding and markers shift boundaries, and the ACL
  recorded with a block is the one at its last token. Correct means: blocks are
  only shared with users whom all documents behind them let in; the recorded ACL
  says so truthfully after any history; each refinement of the scopes shares at
  least what the coarser one shares.
* **Ordering.** Keys and deadlines compete, and the order of one request depends
  on all earlier ones. Correct means: deadlines are met and only deadlines break
  the order of keys; the anchor loses no document.
* **Closed loop.** Each prompt is sent once, in order, by a crew that never
  rests while prompts wait, whatever fails.
* **Checkpoints** (`bench`, driver, sweep). Wherever a launch dies: no file is
  torn, no result is lost or measured twice, results come from the server their
  name says, and exit status 0 means complete.
* **Plugin.** The engine shares exactly what the simulator shares, and isolates
  what it cannot decode.
* **Data and workloads.** A request takes chunks from four overlapping pools, with
  slice bounds that may be negative. Correct means: every requester may read all
  the evidence, no chunk comes twice, the request has the documents it was asked
  for if there are any, and a generator that looks up a chunk it does not have was
  given files that do not belong together.
* **Checks of a live server.** Both scripts infer from counts of cached tokens, on
  a server with a history. Correct means: "PLUGIN OK" implies the plugin, hits of
  an attacker come from the victim's own blocks, and the verdict says what the
  policies send.

## 2. Modules

| Module | Lines of code it models | State | Actions |
|---|---|---|---|
| `BlockPool` | the simulator | `ref`, `hash`, `audience`, `fromProbe`, `free`, `table`, `inFlight`; the locals of a call: `pc`, `req`, `hits`, `rec` | `Submit`, `Stall`, `Reject`, `Admit`, `Trim`, `Return`, `CallDrain`, `Drain` |
| `Filtering` | list comprehensions over lists in order, and `reversed` | – | – |
| `PrefixCache` | nothing: what a prefix cache promises | `cached`, `inUse`, `req`, `found`, `served` | `Answer`, `Release`, `Serve`, `Refuse`, `Finish` |
| `BlockPoolRefines` | the mapping from `BlockPool` to `PrefixCache` | – | – |
| `ACL` | the ACL algebra | – | – |
| `PromptBuilder` | filter, scope plan, segments, padding, barriers, markers, chained hashes, replay | – | – |
| `ScopeSharing` | two requests and their prompts | `setting`, `asked` | `Ask` |
| `RagServing` | `BlockPool` on the prompts of `PromptBuilder` | that of `BlockPool` | those of `BlockPool` |
| `Ordering` | ordering and popularity | `config`, `counts`, `docs`, `pending`, `placed`, `order`, `pc` | `Order`, `Place`, `Finish` |
| `ClosedLoop` | the workers | `batch`, `queue`, `at`, `results` | `Start`, `Answer` |
| `BenchRun` | the policy loop around the workers of `ClosedLoop`, and the server it measures | that of `ClosedLoop`, files, launch, server, two ghosts | `Launch`, `Connect`, `NotReady`, `Worker`, `Warmed`, `Reset`, `BeginLoop`, `Summarize`, `Abort`, `Replace`, `Crash` |
| `BenchMatrix` | the driver script | files, probes, servers, loop positions | one per step of the script, `Fail`, `Kill` |
| `SweepCheckpoint` | the sweep, and workload files written again meanwhile | files, rows, positions, the workload in memory | `Launch`, `Load`, `VisitGroup`, `Simulate`, `Write`, `Replace`, `Conclude`, `Exit`, `Crash`, `OpenWorkload`, `CloseWorkload` |
| `SaltDecoding` | encoder, decoder, plugin | `installed`, `requests` | `Send`, `Forward` |
| `LiveChecks` | smoke test and security probe, on the engine of `SaltDecoding` | cache, the script's stages, calls and rows, verdict, ghosts | `Launch`, `Reset`, `ResetRefused`, `Answered`, `Failed`, `Kill`, `Evict` |
| `Workload` | data preparation and workload generator | the lines of two files; how far the preparation that writes them is; what the generator loaded and drew; the last request | `Prepare`, `WriteLines`, `SaveCorpus`, `OpenQuestions`, `SaveQuestions`, `KillPrepare`, `LoadCorpus`, `Draw`, `FillPool`, `Generate`, `Finish` |
| `MC…` | values for TLC | | |
| `…Proofs` | theorems, see section 6 | | |

`BlockPool` ← `BlockPoolRefines` ← `MCBlockPool`; `BlockPool` + `PromptBuilder`
(over `ACL`) → `RagServing` ← `MCRag`; `PromptBuilder` ← `ScopeSharing` ←
`MCScopeSharing`; `ClosedLoop` ← `BenchRun` ← `MCBench`; `SaltDecoding` ←
`LiveChecks` ← `MCSalt`; `Workload` instantiates `ACL` with the directory it draws.
`FilteringProofs` has the lemmas about lists and numbers that the other proof
modules share: `BlockPoolProofs` (of `BlockPool`, `BlockPoolRefines` and
`RagServing`), `ContextProofs` (of `ACL`, `Ordering` and `ScopeSharing`),
`BenchProofs` (of `ClosedLoop` and `BenchRun`), `BenchMatrixProofs`, `SweepProofs`,
`WorkloadProofs` and `SaltProofs` (of `SaltDecoding` and `LiveChecks`). What `BenchRun` establishes about a bench
process (it records the missing policies in order, exits 0 only when all are
recorded, and leaves whole files) is what `BenchMatrix` assumes of it.

### Correspondence with the code

**`BlockPool`.** The simulator is single threaded and `process` runs to
completion. The model splits it where an intermediate state matters: `Submit` is
lines up to the lookup and the audit, each `Stall` is one iteration of the stall
loop, `Admit` is touching, popping, evicting and registering, `Trim` one
iteration of the window loop, `Reject` the `RuntimeError`; `pc` forces the order,
so no other call can come in between. `drain` is `CallDrain` and `Drain`. The
free queue is a sequence in eviction order, the table a function into
`Block ∪ {NoBlock}`, `ref_cnt` a function. Within `Admit`, the loops over blocks
are functions by block: this is possible because the popped blocks are distinct
and a block's registration depends only on its position. A chained hash
determines its prefix, which `HashAssumption` states. An ACL is represented by
its audience, because the audit asks nothing else of it.

**`PromptBuilder`.** A token is a tuple with an identity. A scope id is the set
of atoms it is derived from; `user_scope_id(u)` is by construction the scope of
`user:u`. A block hash is the whole chain (tokens and extra keys of the blocks so
far), so equality of hashes is equality of prefixes. Every document starts with
the same header token, as the template's do: this is what makes the unaligned
case interesting.

**`Ordering`.** Scores are kept in units (`Unit` = 1.0) and decayed with an exact
fraction, rounded down; this stands for floats, and for dropping scores below
1e-6. The tuple keys of Python compare as in `Less`.

**`ClosedLoop`.** Between two awaits a coroutine is not interrupted, so storing
an answer and taking the next prompt is one step. `Answers` are the ways
`complete` returns; it never raises.

**`BenchRun`.** The server is external: it is modelled by a finished-requests
counter and by whose blocks its cache holds, which is how the code uses it. A
failed call may or may not have been computed and counted. `warm` and `own` are
ghosts that say what the report should say.

**`BenchMatrix`, `SweepCheckpoint`.** One action per step whose interruption
leaves other files or processes behind. `Fail` is `set -e`, an error or a signal,
with the trap; `Kill` and `Crash` are deaths without one. `Write` and `Replace`
separate the temporary file from the rename. In the sweep a row carries, beside
its cell, the version of the workload and the build settings it was computed from,
which the code does not compare: `VisitGroup` matches the cell alone. A workload
file is `Torn` from its opening until its writer closes it; a run that would read
it then raises, which is `Crash`.

**`SaltDecoding`.** A salt is its list of items, with its length; an item without
a number has `NoNumber`. `installed` says whether the plugin could patch the
engine; without it vLLM keys the first block with the whole salt.

**`LiveChecks`.** The engine's block keys are those of `SaltDecoding` (its own
plugin, or stock vLLM), its cache is the set of chains of block keys it holds. A
script is its list of stages: the smoke test is one, the probe one per victim.
`Reset` and `ResetRefused` are the two answers to the reset, after which the smoke
test goes on and the probe exits; each call is `Answered` or `Failed`, and
`Record` stores its row and closes the stage or the script. Tokens per block and
the barrier offsets are scaled (16 to 2, 80 to 4). `CheckSpec` starts either the
two compared requests of `SaltDecoding` or scripts.

**`Workload`.** A chunk is the paragraph it holds, so that the same paragraph of
two samples is the same chunk, as with the ids the code derives from the text. A
file is the set of its whole lines and `torn`, which says that its last line is cut
or that there is no file. `save` truncates the corpus (`Prepare`), writes it row by row
(`WriteLines`), closes it (`SaveCorpus`), and does the same with the questions
(`OpenQuestions`, `WriteLines`, `SaveQuestions`); a death (`KillPrepare`) leaves each
file with the lines it has got. The readers take any number of lines and fail only on
a torn one, so that a cut file is a shorter one to them; reading a file is one step,
and preparations do not overlap. Random draws are any draw
(`kSubset`, `SetToSeq`), `Rounded` is Python's `round`, `Slice` its `s[:n]` for a
negative `n` too. What `generate` draws before the requests is `Draw` and
`FillPool`, one iteration of its request loop is `Generate`. Which of the chunks drawn
for a fill come first is any choice of them; the order of a request's documents is
left to the ranker.

**Faulty variants.** Most modules hold a few definitions marked *faulty variant*:
plausible mistakes (a dropped condition, an off-by-one, another order) that no
specification uses. For each property one of them, put in the place of the
definition it varies, makes TLC find a violation, so that no property holds
whatever the code does.

## 3. Runs

| Run | Checks | Bounds | Distinct states |
|---|---|---|---|
| `pool` | `TypeOK`, `RefCountExact`, `FreeQueueExact`, `TableSound`, `HitsStayCached`, `DuplicatesOnlyAtCap`, `RejectOnlyOversize`, `InUsePinned`, `StallsOnlyWithoutRoom`, `CallsEnd`, `ImplementsPrefixCache` | 5 blocks of 2 tokens, window 2, five prompts, one larger than the pool | 164 487 |
| `scope_sharing` | `RecordedAudienceExact`, `SharingIsAuthorized`, `ScopingIsFree`, `FinerScopesShareMore`, `ReplayFindsNothing` | 3 users, 2 groups, 4 documents, up to 3 per request; aligned or not, salts or markers, five modes | 16 132 |
| `rag_scoped` | `NoUnauthorizedHit`, `AuditTruthful` | 5 blocks of 4 tokens, window 1, four requests and a replay, unaligned, ACL scopes | 65 585 |
| `ordering` | `OnlyDeadlinesBreakOrder`, `BestNextToQuestion` | 3 chunks, ranks 0–3, decay 4/5, eighteen configurations | 1 582 976 |
| `closed_loop` | `EachPromptOnce`, `LoopEnds` (liveness) | 3 workers, 4 prompts, 5 kinds of answer | 10 856 |
| `bench` | `CheckpointsWhole`, `ExitZeroMeansRecorded`, `ColdStart`, `DeltaIsThisRun` | 2 policies, 2 requests, 2 workers (symmetric), 2 launches, one failed scrape per launch | 3 214 468 |
| `matrix_resume` | `MeasuredOnItsServer`, `ExitZeroMeansComplete`, `ResumeKeepsResults` | 2 budgets, 2 cells, 2 policies, trueB0 and probe on, 3 launches | 36 079 |
| `sweep` | `EndedRunIsComplete`, `PoliciesComparable`, `ResumeKeepsRows` | 2 workloads, 3 groups × 2 combos, and a part of it with other settings, 4 launches, 2 writes of workload files | 318 462 |
| `salt_sharing` | `SharedAsSimulated`, `UndecodedSaltsIsolate`, `OkMeansInstalled`, `ProbeHitsAreVictims`, `VerdictFollowsScopes` | 2 requests of 3 blocks, at most 3 barriers and 21 characters; or 2 scripts of up to 3 victims, with 2 mishaps | 1 915 960 |
| `workload` | `AlreadyAuthorized`, `RequestsAreFull`, `OnlyMismatchRaises` | 2 users, 2 groups, 2 samples of up to 2 rows, 2 kinds of ACL, 3 configurations, 2 preparations | 1 954 070 |
| `sweep_overwrites` | `OnlyForceOverwrites` is **violated** | 2 launches | |
| `bench_failed_policy` | `EveryPolicyRecorded` is **violated** | 1 launch | |

### What they show, and why the bounds are enough

**`pool`.** Four prompts form one tree (`h1-h2-h3`, `h1-h5-h6`, `h4`): "cap"
ends on a block boundary and so recomputes a cached block (duplicates), "deep"
extends it, "fork" leaves after the first block, "leaf" shares nothing. They need
2 to 4 blocks, so a pool of five forces evictions, partial evictions, stalls with
one and with two requests in flight, re-use of a block under another hash,
decode blocks, and blocks shared by all three requests that can be in flight at
the same time. Since the history is unbounded (any sequence of calls and drains),
the state space is complete for this pool. `StallsOnlyWithoutRoom` bounds the
stalls from the other side: a request in flight is retired early only if the
blocks of all requests would not fit even when shared blocks are counted twice.
`DuplicatesOnlyAtCap` says that two blocks carry one prompt hash only because of
the cap. The fifth prompt
shares their first block and needs six: it is the only one ever rejected. A
rejection leaves the pool as it was, apart from requests retired before it.
`CallsEnd` says that every step inside a call brings its end nearer, by a measure
that is a number: a call waits for nobody, so that this is what its liveness
comes to. `ImplementsPrefixCache` is the refinement of section 4.

**`scope_sharing`.** Requests bring up to two documents of any kind of ACL in any
order, readable or not, or three readable ones: one document per kind (public,
two overlapping groups, a user) and three users cover every combination the ACL
algebra distinguishes. `SharingIsAuthorized`, compared with the documents
themselves and not with effective ACLs, holds in all configurations.
`ScopingIsFree` and `FinerScopesShareMore` hold for aligned prompts with salts,
and are stated for these: without alignment a block may end in header text that
two documents with different ACLs share, which global caching may reuse and
scopes rightly do not. `RecordedAudienceExact` is an inclusion with markers,
whose tokens are recorded as part of the segment they open.

**`rag_scoped`.** The same prompts go through a small pool in every order, with
evictions and re-used blocks, with one outsider replaying the first prompt without
its salt. Documents are unaligned, so that barriers fall inside blocks. No
request is served another's restricted state, and the ACL recorded with each
cached block stays the true one, which is what makes the audit counter of the
simulator meaningful.

**`ordering`.** Two public documents compete on popularity while the third is a
user's. With decay 4/5 counts reach two buckets of hot documents and the set of
popularity values is finite, so that sequences of requests are unbounded. Shifts
are none, negative (which is zero), one and two; anchors zero and two
(retrieval order: no shift, anchors zero and one).
Ranks have gaps, as after the authorization filter.

**`closed_loop`.** More prompts than workers, so that workers take second
prompts, and every kind of answer in every order.

**`bench`.** Two policies make the second start on a cache the first has filled;
two launches make a resumed one meet files and a cache left by one that died
anywhere; the warm-up leaves foreign blocks. `DeltaIsThisRun` is stated for runs
whose two scrapes worked. A third launch or a second failed scrape adds no new
combination of a file, a cache and a delta.

**`matrix_resume`.** Launches may fail (trap runs) or be killed (it does not), so
the third launch meets a stale server and every partial set of files.

**`sweep`.** One command line launched repeatedly, or a whole sweep, a forced one
and a part of it with other build settings in any order. `ResumeKeepsRows` is
stated for the first kind, the others for both. Two groups share a workload, so
that a file written again between them must not divide their rows:
`PoliciesComparable` holds because the code loads a workload once for all its
policies, and exempts the rows that a launch without `--force` took over (section
7). Two writes suffice for a file written again and for two files torn.

**`salt_sharing`, requests.** Offsets are around the boundaries of blocks of two
tokens; lists reach and exceed both limits (three barriers, 21 characters), are in
and out of order, have unknown scope ids and items without numbers.

**`salt_sharing`, scripts.** Two scripts in any order, each of them killed or not,
the second on the cache the first left. `OkMeansInstalled` says that the smoke
test is right in both directions: it never prints "PLUGIN OK" without the plugin,
whatever is evicted or fails, as long as the reset was granted or its nonce is new
to the cache; and it passes with the plugin on a calm server, if the prompt is
long enough. Lengths are too short for the group barrier by one block, just
enough, and more. The probe gets victims of scoped policies and of such as
send no salt, with a common preamble. Two mishaps (failed calls or evictions) can
hit both the victim's call and the attacker's.

**`workload`.** Two rows share two paragraphs, have gold chunks in another order
than their context and one empty paragraph; the smaller sample lacks a chunk of
the larger's second question while holding its gold chunks, which is what makes
the unguarded lookup fail. The three configurations ask for fewer documents than
there are gold chunks (negative slice bound), for one more, and for as many as
there are. `share` 3/4 of one and 1/2 of three slots meet both cases of rounding.
ACLs are one group's, which by the directory all, some or none belong to, and one
user's; every assignment of them to chunks is drawn, with every directory, hot
pool and choice of the fill. Two preparations give
every mixture of old and new files, and each may die inside a line, between two lines
or between the files: a new corpus beside the questions of the other sample, a cut
corpus beside questions of the very same rows, and a cut list of questions beside its
whole corpus are all read by the generator. `OnlyMismatchRaises` says that the first
two are the only cause of its `KeyError`, and that the third does no harm. The fill
is drawn from four chunks, which are less than the larger corpus, so that the lower
bound of `RequestsAreFull` is met both with chunks it may have missed and without.

**`sweep_overwrites`.** The trace has two launches: one of the whole matrix that saves
a row and dies, and one of a part, without `--force`, that runs to its end. The file
it leaves lacks the row of the first.

### Deadlock

`CHECK_DEADLOCK FALSE` is set where the system may stop: the closed loop ends
(`closed_loop`), users stop launching at `MaxLaunches` (`bench*`, `sweep*`,
`matrix_resume`, the scripts of `salt_sharing`), two requests have arrived
(`scope_sharing`, `salt_sharing`), and the generator finds no usable file after
the last preparation died (`workload`). The pool, the composed system and the
ordering are checked for deadlock.

### Bounds by name

`MaxLaunches` caps launches, `MaxLost` failed scrapes per launch, `MaxGenerated`
writes of workload files, `MaxMishaps` failed calls and evictions of a live
server, `MaxPrepared` preparations of data. `GroupsPerUser`, `HotPoolSize`,
`QuestionPoolSize` and `FillSample` are constants of the generator, scaled down;
the fill sample takes all chunks of the smaller corpus and four of the five of the
larger one. `ScopeSharing`
and `SaltDecoding` stop at two requests, since their properties are about pairs.
Nothing else is capped: pool, ordering and loop histories, and the
requests drawn, are unbounded.

## 4. Abstraction and refinement

`PrefixCache` says what a prefix cache promises without blocks, counts or queue:
a set of cached hashes from which each request is answered with its *longest*
cached prefix; entries in use are never dropped; serving adds exactly the
request's own hashes; the cached set stays closed under prefixes whenever it
changes, so that no entry is unreachable; a request is refused only when nobody
is in flight. `BlockPoolRefines` maps `cached` to the hashes in the table,
`inUse` to those whose block is referenced, `found` to the number of hits and
`served` to `pc = "trim"`. TLC checks `Cache!Spec` as a property of the run
`pool`, and `PoolImplementsCache` proves it for every pool (section 6). Closure is
the deep part: it rests on the order in which a retired request's blocks enter the
queue (last first), and fails if that order is reversed.

## 5. Fairness

* `ClosedLoop`: weak fairness of each worker. The event loop resumes a coroutine
  whose call is answered. The client's timeout (600 s by default,
  `aclkv/client.py:120`) is one per operation: connecting and each wait for the next
  bytes raise when it is over. So a call ends with an exception if the server falls
  silent, and otherwise with the stream, which `max_tokens` bounds.
* All other specifications are safety only. That a call of the simulator returns
  is `CallsEnd`, which bounds its steps and needs no fairness.

## 6. Proofs

All proofs hold for every value of the constants that satisfies the named
assumptions.

| Theorem | States | For every |
|---|---|---|
| `TypeCorrect`, `RefCounts`, `FreeQueue`, `LookupSound`, `HitsSurviveStalls`, `AllocationSucceeds`, `RejectionsJustified`, `EntriesPinned` (`BlockPoolProofs`) | `TypeOK`, `RefCountExact`, `FreeQueueExact`, `TableSound`, `HitsStayCached`, `AllocationFits`, `RejectOnlyOversize`, `InUsePinned` | pool, block size, window, set of prompts |
| `CallsReturn`, `DuplicatesJustified` (`BlockPoolProofs`) | `CallsEnd`, `DuplicatesOnlyAtCap` | the same |
| `PoolImplementsCache` (`BlockPoolProofs`) | `ImplementsPrefixCache`: the pool is a `PrefixCache` | the same |
| `StallsJustified` (`BlockPoolProofs`) | `StallsOnlyWithoutRoom` | the same |
| `HitsAuthorized`, `AuditsTruthful` (`BlockPoolProofs`) | `NoUnauthorizedHit`, `AuditTruthful` | the same; prompts whose shared hashes authorize, and that bring true audiences |
| `RecordedAudiences`, `SharingAuthorized`, `ReplayNothing`, `ScopesCostNothing`, `ScopesShareMore` (`ContextProofs`) | `RecordedAudienceExact`, `SharingIsAuthorized`, `ReplayFindsNothing`, `ScopingIsFree`, `FinerScopesShareMore` | directory, block size, configuration, two requests of any documents |
| `AudiencesAgree` (`ContextProofs`) | two prompts that share a block under ACL scopes agree on whom its documents let in | the same |
| `IntersectExact` (`ContextProofs`) | the intersection of two ACLs that admit a common user admits exactly the users both admit | directory |
| `DeadlinesKept`, `NoTwoDue`, `KeysRuleOtherwise`, `PromptIsWhole` (`ContextProofs`) | `WithinShift`; at most one document is due at a time; `OnlyDeadlinesBreakOrder`; `BestNextToQuestion` | request, configuration, history |
| `PluginSharesAsSimulated`, `OpaqueSaltsIsolate` (`SaltProofs`) | `SharedAsSimulated`, `UndecodedSaltsIsolate` | block size, prompt length, limits, lists of barriers, foreign salts |
| `AttacksHitTheVictim`, `VerdictIsOfScopes`, `SmokeTestTellsPlugin` (`SaltProofs`) | `ProbeHitsAreVictims`, `VerdictFollowsScopes`, `OkMeansInstalled` | lists of victims, lengths of the test's prompt, number of launches and mishaps |
| `PromptsOnce`, `OrderKept`, `LoopClosed`, `AnswersComplete` (`BenchProofs`) | `EachPromptOnce`, `SentInOrder`, `NoneIdleWhileQueued`; gather returns with every answer | workload, crew, answers |
| `CheckpointsNeverTorn`, `ExitCodeTruthful`, `ResetMeansCold`, `DeltasAreOwn` (`BenchProofs`) | `CheckpointsWhole`, `ExitZeroMeansRecorded`, `ColdStart`, `DeltaIsThisRun` | workload, crew, answers, policies, number of launches |
| `MeasuredRightServer`, `MatrixCompletes`, `ResultsStay` (`BenchMatrixProofs`) | `MeasuredOnItsServer`, `ExitZeroMeansComplete`, `ResumeKeepsResults` | budgets, cells, policies, number of launches |
| `SweepCompletes`, `PoliciesCompared`, `ResumeIsSafe` (`SweepProofs`) | `EndedRunIsComplete`, `PoliciesComparable`, `ResumeKeepsRows` | command lines, workloads, rewritings, number of launches |
| `RequestsAuthorized`, `RequestsComplete`, `RequestsDistinct`, `KeyErrorsExplained` (`WorkloadProofs`) | `AlreadyAuthorized`; `RequestsAreFull`; every request holds its gold chunks and no chunk twice; `OnlyMismatchRaises` | datasets, users, groups, ACLs, configurations, pool sizes |

**Block pool.** None of the properties is inductive alone. The inductive
invariant is

    IInv == TypeOK /\ PoolInv /\ TableSound /\ HitsStayCached /\ HitsBounded /\ DrainBusy
    PoolInv == RefCountExact /\ FreeQueueExact /\ HeldDistinct

`HeldDistinct` (a request holds no block twice) is needed because the model, as
the code, decrements each held block once: a block held twice by one request would
be counted wrongly. `HeldDistinct` of the next state needs that the hits are
distinct, which follows from `TableSound`, `HitsStayCached` and the hash
assumption (two positions of a prompt have different hashes, hence different
blocks), and that the popped blocks are neither hits nor in use, which is
`FreeQueueExact`. Thus the facts about counting and those about content have to
be proved together. The lemma `AdmittedBlocks` collects what `Admit` takes,
`RetireKeeps` covers the three callers of a retirement, `AdmitKeeps` the
admission. `AllocationFits` then follows by comparing cardinalities of the
injective queue before and after the hits are removed, `RejectOnlyOversize` from
the fact that an empty window leaves every block in the queue. `CallsReturn` takes
from the same invariant that a stall and a drain retire somebody.

**Prefix cache.** The refinement needs an invariant about order:

    ChainInv == IInv /\ HeldChain /\ QueueOrder /\ LookupLongest /\ StrayAtCap

A prompt's block can be found only if its parent, the block of the prefix one
block shorter, is in the table. A request in flight holds with each of its prompt
blocks the block the table has for the parent (`HeldChain`), so a parent in use is
never evicted before its children. Once nobody uses them, the parent stands behind
its children in the free queue (`QueueOrder`), because `_retire` enters a
request's blocks last first, and so it is evicted after them. The lookup stops at
the first miss or at the cap (`LookupLongest`), which with closure makes it the
longest cached prefix. A block that carries a prompt's hash while the table leads
elsewhere was recomputed at the cap (`StrayAtCap`), which gives
`DuplicatesOnlyAtCap`. `PoolImplementsCache` then takes each action to the step of
`PrefixCache` it is, or to a stutter.

**Stalls.** `StallsJustified` compares cardinalities: when the pool is too short,
the blocks in use, those of the hits and the rest of the queue are all of the pool,
and the blocks in use are at most as many as the places in which requests hold them.

**Served prompts.** `Recorded` says that a block with a prompt's hash records what
some prompt with that hash brought, although blocks are evicted, filled again and
duplicated. Two theorems rest on it, each under the hypothesis about the prompts that
the middleware is there to fulfil, and which `RagServing` states: that shared hashes
authorize (`PromptsAuthorized`), so that `NoUnauthorizedHit` holds, and that the
audiences brought are those of the documents (`AudiencesTrue`), so that
`AuditTruthful` does. For built prompts these are what the theorems about
`ScopeSharing` establish, for any two requests: `SharingAuthorized` (honest requests)
and `ReplayNothing` (replays) give the first, `RecordedAudiences` and
`AudiencesAgree` the second. The run `rag_scoped` checks the composition without
either hypothesis.

**Scope sharing.** `build` is described by three lists: of parts (preamble,
documents, tail), of segments (`Laid`: the parts with their markers) and of tokens
(`Placed`: where each segment starts). These are facts about flattened lists and
about recursive functions, proved by induction over positions. A block ends in a
part, and the scope in force there was *opened* by some part at or before it, in a
segment that starts before the block ends (`Governs`, `OpenedBefore`). Its barrier is
among the keys of one of the chained blocks, or its marker among their tokens;
whoever shares the block has it too (`SharedScope`). Under each secure mode a scope that occurs in
the prompt of a user admits only those who may read the documents before it
(`ScopeGrants`): that is `SharingAuthorized`. `RecordedAudiences` says that the effective
ACL of the part is that of the documents begun before the block ends (`TruthExact`,
by `IntersectExact` along the prefix), `ReplayNothing` that the first block of a
scoped prompt has a key, which one without salt lacks. With ACL scopes the scope *is*
the effective ACL, and of two parts the later one admits fewer users, so that
prompts that share a block record the same audience (`AudiencesAgree`). The two theorems about what
scopes cost need the converse: in aligned prompts the text determines the documents
(`TextDecides`: the header ends within the block it begins in, and ids name chunks),
hence the effective ACLs, hence the barriers (`PlansAgree`, `BarriersCarry`).

**Lists.** `FilteringProofs` shows what the two list operations do to range,
length, injectivity and order (`FilteredKeeps`, `BackwardsKeeps`, `FilteredOrder`,
`BackwardsOrder`), by way of positions; what cutting, joining and taking the tail do
to lists without repetition; and induction over numbers and the existence of
recursive functions (`LeastElement`, `Induction`, `Recursion`), stated for sets so
that they need no operator as a parameter.

**Ordering.** The invariant is that every document still to be placed can meet
its deadline (`InTime`). It is preserved because ranks are distinct: at most one
document is due at a position, and one that is due is taken. For the order of keys
`KeyInv` adds that whatever was placed for its key had the least key of all that
were still to be placed (`KeysLead`), which stays true when they are placed; this
needs that the keys order any documents (`LessOneWay`), hence that
`Bucket` is a number for every popularity count, and these never become negative
(`Counted`). The anchor cuts two sublists
out of a list sorted by rank: `AscendingOrder` and `AnchorKeeps` show that their
concatenation has the same documents, and that the anchored ones end it.

**Closed loop.** The invariant says that the queue is a suffix of the batch
(`Suffix`) and that the prompts before it are exactly those in flight or answered,
each awaited by one worker (`OneHolder`).

**Benchmark.** `BenchProofs` uses the invariant of the closed loop
for the variables of the loop while a policy is measured (`LoopRuns`): once gather
has returned, the answers are those of all requests. Around it, `Measuring` relates
the server to what the launch remembers of it: the cache at the loop's start was
empty if the reset was granted, and the counter is what was scraped plus the
requests of this loop. Hence a report is good when it is written to the temporary
file, and `OnDisk` says that only good reports reach the disk. `Launching` says that
each policy has a file or is still on the launch's list, so that an empty list means
completeness.

**Driver.** Three facts carry `MatrixInv`: in the stages that measure, the only
server is the one of the loops' position (`OnServer`); everything behind the position
is recorded (`Behind`), whether the launch recorded it or skipped it; and a bench
process that is not forced has only jobs without a file on its list (`BenchList`).

**Sweep.** The rows in memory are those of a prefix of the loop order (`Accounted`,
`TodoInOrder`), each cell once (`OneRow`), and where a row was found it is that one
(`Adopted`): this gives `EndedRunIsComplete`. For `PoliciesComparable`, `SameInputs`
says that the rows computed for one workload have the version in memory while it is
there; the loops leave a workload for good when they go on to the next one, which is
why `CommandAssumption` asks that a workload's groups are contiguous. For
`ResumeKeepsRows`, the file of a sweep that is always launched with one command line
is a prefix of the loop order too (`FileInOrder`), so that by the time of the first
flush, which comes after the first cell the file lacks, all rows found are in memory
again (`NothingDropped`).

**Workload.** The inductive invariant adds to the properties what the generator
has at each of its places (`Loaded`): the pool holds questions of the loaded ones, the
hot chunks belong to the corpus; what the files hold, by how far the preparation is
(`Saved`): once it has closed the corpus that has all chunks of its sample, and once it
has opened the questions these are some of its sample's; and that what is loaded is of
the preparation the files are of as long as `matched` says so (`Matching`). A request
is a gold list followed by three lists, and the argument goes along them:
`FilteredKeeps` and `SliceDistinct` show that each is free of repetition, whatever
the sign of the slice bound, and by its filter each is readable and apart from
what was chosen before. A lookup that fails shows a question
with a chunk outside the corpus; its row is then no row of the sample whose chunks
are all there (`MissingChunk`), so that corpus and questions are not matched.

**Size of a request.** `RequestsComplete` follows the same lists with their lengths:
a slice of at most `n` fresh chunks has the lesser of `n` and their number
(`SliceLength`, `GrowsBy`), the rounded share of the free slots is at most all of them
(`RoundedShare`, for which `share_rate` has to be at most one), and a fill misses no
more of the readable chunks that were not chosen before than its sample misses of the
corpus (`LeftOut`, `FillCompletes`).

**Salts.** Of a list with ascending offsets, the barriers before a bound come first
(`LowOffsetsFirst`), so that the keys of a block are those of a slice of the list
(`BlockKeys`): blocks have equal keys up to a point exactly if the same scopes begin
in the same blocks up to there (`KeysAreScopes`, by induction over blocks). What is
encoded is decoded again (`DecodedAsEncoded`), and an opaque salt puts one key
into the first block, which no scope and no other salt puts there (`LastKey`).

**Live checks.** The invariant `CheckInv` relates what a script has seen to the
cache it has seen it in. A call finds blocks only as far as an earlier call of the same
stage has left blocks of the same keys (`Explained`), and, as long as nothing failed
or was evicted, all of those (`Complete`). The first holds because the cache was
reset or knows nothing of the prompt (`CacheInv`), the second because it then has
the chains of all calls so far. It also says whose blocks the unsalted and forged
attacks have met (`OwnInv`). From there the theorems are about salts
alone: those of different scopes differ in the first block (`LeadsDiffer`), and the
group barrier of the smoke test takes effect in the block it is in and not before
(`GroupBarrier`, `SmokeRows`).

**Assumptions.** TLC evaluates each of them in the runs.

* Pool: `PoolAssumption` (at least two blocks, positive block size, which the
  constructor checks), `PromptAssumption` (a prompt has a token and one hash and
  audience per full block, as `block_hashes` makes them), `HashAssumption` (chained
  hashes do not collide, and decode keys are apart from prompt hashes: the simulator
  takes both for granted), `NoReqAssumption`.
* Builder: `BlockAssumption` (positive block size), `RequestAssumption` (the
  documents of a request have canonical ACLs and a length, and its user is one),
  `CorpusAssumption` (an id names one chunk, a chunk is not empty, and the header of a
  document fits into a block), which the two theorems on what scopes cost use.
* Ordering: `RetrievalAssumption` (chunks and ranks of a request are distinct),
  `ConfigAssumption`, `PopularityAssumption` (numbers, and a decay of at most one).
* Closed loop and benchmark: `BatchAssumption` (request ids, which the generator
  numbers, are distinct), `BenchAssumption` (no policy is named twice),
  `FileAssumption` (that there is no file is not a report).
* Driver and sweep: `MatrixAssumption` (budgets, cells and policies are lists without
  repetition), `LaunchAssumption`, `VersionAssumption` and `CommandAssumption` (a
  command line names no policy or combo twice and visits a workload's policies
  together), which the nested loops and the scripts' default lists satisfy.
* Workload: `SampleAssumption` (a sample and its rows are lists, and the paragraphs of
  a row are distinct), `ConfigAssumption` (`docs_per_request` is a natural number and
  `share_rate` a fraction, `aclkv/workload.py:9`).
* Salts: `SaltAssumption` (positive block size, barriers at numbers, and in foreign salts
  at numbers or `NoNumber`; markers such as `NoSalt` are no lists), `LiveAssumption` (the
  smoke test's salts are within the encoder's limits and its group barrier is not in
  the first block, as 80 tokens and blocks of 16 have it; random ids are none the
  policies give, which `secrets.token_hex` provides; a victim's prompt has no smoke
  test's nonce, and is scoped from its first token or not at all, as every policy does).

**Only model-checked.** Liveness (`LoopEnds`): it needs fairness, which the prover
does not reason about, as anything with `ENABLED`. The composition of builder and
pool in `RagServing` is proved in two halves, as said above: that the names `RagServing`
gives to chains, and the constants `Prompts` and `PromptHash` a configuration
computes from them, meet the hypotheses of `HitsAuthorized` and `AuditsTruthful` is
checked by `rag_scoped` and not proved. All other invariants and action properties
of the passing runs are stated by a theorem. No module uses RECURSIVE operators.

## 7. Findings and observations

* **`sweep_overwrites`** (documentation and code disagree). `flush_summary`
  writes only the rows of the current launch (`scripts/run_sim_matrix.py:98`), so
  that a launch of a part of the matrix that runs to its end leaves a file without the
  rows earlier launches had completed in all other cells, although `--force`, "re-run
  and overwrite existing simulations", was not given. `OnlyForceOverwrites` is stated
  where a launch ends: until then it may still hold rows in memory that its next flush
  will write back.
* **`bench_failed_policy`** (bug). If no request of a policy has a TTFT,
  `latency_summary` returns `{"n": 0}` and the progress line raises
  `KeyError: 'p50'` (`aclkv/bench.py:117`): the policy is not recorded, and no
  later one is measured, although a report with errors is provided for.

Observed while modelling, with no run of their own:

* The window holds `max_concurrency + 1` requests at its peak: it is trimmed
  after the new request has its blocks (`aclkv/simulator.py:304`). The model does
  the same.
* The relevance anchor moves documents past `max_shift`
  (`aclkv/ordering.py:152`); `WithinShift` is about the placement before it.
* A scrape that fails counts as zero, so that the recorded delta becomes the
  server's total or its negative (`aclkv/metrics.py:52`); `DeltaIsThisRun` is
  stated for the other runs.
* A resumed sweep matches rows without the anchor, shift and alignment settings
  and without a version of the workload, so a launch with other settings, or after
  a workload was generated again, takes over old rows
  (`scripts/run_sim_matrix.py:89`); `PoliciesComparable` is stated for all others.
* A question's gold chunks are checked against the corpus, its distractors are not
  (`aclkv/workload.py:186`): files of two preparations, or a corpus that a death has cut
  between two lines and that reads as a whole one, end the generator in a `KeyError`.
  `OnlyMismatchRaises` says that nothing else does.
* With more gold chunks than `docs_per_request` the slice bound is negative
  (`aclkv/workload.py:188`) and the request keeps some distractors, so that it is
  longer still; no document promises a length.
* The probe counts an attack that failed as one without hits
  (`scripts/security_probe.py:104`), so that a server that answers nothing passes.
* The smoke test expects 80 cached tokens before its group barrier
  (`scripts/smoke_test_plugin.py:70`), which a prompt of fewer than six blocks
  cannot have: `--blocks` below that fails with the plugin in place.

## 8. What is not modelled

* Simulator: `_seen_hashes` and the record's statistics, which no decision reads;
  `_table_sizes`; `reset`, which only the constructor calls (`Init`). The forged
  replay differs from the modelled one by random scope ids only.
* Collisions of the keyed and of the chained hash; the key itself.
* Tokenization, prompt wording, the HTTP stream, the latency figures of a report.
* `SaltDecoding` has offsets that are numbers or are not; digits that `isdigit`
  accepts and `int` refuses are below its level.
* `BenchRun`: an abandoned request that the server finishes during a later
  policy's run; missing workload files; more than one failed scrape per launch.
* `BenchMatrix`: environment set-up at the top of the script; a bench process is
  taken by what `BenchRun` shows of it.
* `SweepCheckpoint`: a file truncated by the operating system; which requests a
  workload has (`Workload` is not composed with it).
* `Workload`: popularity weights and BM25 scores, which only bias the draws and
  order the documents; the download and its Parquet file; statistics; two preparations
  at once, and a file rewritten while it is being read; a request saved and read back
  later against a newer corpus.
* `LiveChecks`: timings; the sampling of victims, and of attackers, who differ from
  each other to the engine in nothing; a second client of the same server.
* Metrics, model geometry, aggregation and plots (arithmetic over finished
  records), tokenizer (text), answer quality (scores of finished answers), server
  set-up.

## 9. Plan

Done, in this order: block pool and its proofs; prefix cache and refinement;
ACLs, builder and scope sharing; the composed system; ordering; closed loop;
benchmark and driver; sweep; salts and plugin; live checks; workload files of the
sweep; data preparation and workload generator with its proofs; termination of
the pool's calls; proofs of the refinement, the order of documents, the sweep, the
benchmark and its driver; of scope sharing, served prompts, stalls, the size of
requests, the wire encoding and the live checks.

Next, models:

1. Two pools in lockstep, one with global sharing and one with ACL scopes, to
   lift `ScopingIsFree` from pairs of prompts to whole histories with eviction.
2. `Ordering` composed with `PromptBuilder`: builds in the order that popularity
   dictates, then served by the pool.
3. The abstract bench process as a specification that `BenchRun` implements and
   `BenchMatrix` uses, in place of the informal contract.
4. The late completion of abandoned requests in `BenchRun`.
5. `Workload` composed with the sweep: workload files generated from one corpus and
   read against another.

Next, proofs:

1. `PromptsAuthorized` and `AudiencesTrue` for the prompts `RagServing` names, which
   joins the two halves: that equal names stand for equal chains, and then
   `SharingAuthorized`, `ReplayNothing`, `RecordedAudiences` and `AudiencesAgree`.
2. `SweepCheckpoint` with the rows of two command lines: which of `ResumeKeepsRows`
   survives a change of the command line.
3. The theorems of the models above, as they are written.
