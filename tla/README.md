# guard-core: a TLA+ model of the request guard

guard-core is a security middleware for Node frameworks. A request passes an
ordered pipeline of 17 checks; the checks consult managers that keep state
across requests (ban list, rate limiter, counters of suspicious requests,
dynamic rules, scan pools), several of which share a Redis with other processes.
Almost everything is asynchronous: any `await` is a point at which other
requests, timers and Redis answers change what the code has just looked at.
That is where the model spends its detail.

Paths below are relative to `src/packages/core/src/` unless they start with
another package's name; documents are under `src/docs/src/content/docs/`.

## 1. Inventory

| Component | Code | State | Operations | Model |
|---|---|---|---|---|
| Scan worker pool | `detection-engine/scan-worker-pool.ts` | slots, idle/busy, FIFO of waiters, consecutive timeouts, closed | dispatch, message, error, deadline, exit, close | `ScanWorkerPool` |
| IP ban manager | `handlers/ip-ban.ts`, over `handlers/redis.ts` | bounded Map ip -> expiry, Redis keys with TTL | banIp, isIpBanned, unbanIp, reset | `IpBan`, `IpBanAudit` |
| Bounded body reader | `core/bounded-body-reader.ts` | in-flight counter, limit, FIFO of waiters, prefix per request | readCappedBody, release, timeout | `BodyReader` |
| Framework adapters | `express`, `fastify`, `hono`, `nestjs` packages, `core/responses/factory.ts` | single-flight initialization, response in progress | initialize, guard a request, finish its response | `Adapter`, abstractly `Gate` |
| WebSocket guard | `core/websocket-guard.ts`, `core/node-websocket-guard.ts` | upgrade in progress | judge and forward or reject | `Adapter` |
| Initialization | `core/initialization/handler-initializer.ts`, `middleware-support.ts` | wired managers | connect Redis, agent, managers | `Boot` |
| Events and telemetry | `core/events/*` | sinks, muted types | report, filter, enrich, send to each | `Events` |
| Check pipeline, on_block hook | `core/checks/pipeline.ts`, `core/block-events.ts` | list of checks, stash of the block reason | execute, add, insert, remove, error policy, hook | `CheckPipeline` |
| The 17 checks, auto-ban, bypass | `core/checks/implementations/*`, `core/checks/helpers.ts` | counters of suspicious IPs, flags on the request | one per check, count, threshold, escalate | `Guard` |
| Rate limiter | `handlers/rate-limit.ts`, `checks/implementations/rate-limit.ts` | sorted sets in Redis, lists in memory, script SHA | tiers, EVALSHA/reload, single commands, fallback | `RateLimit` |
| Rate limit by IP | `handlers/rate-limit-by-ip.ts` | sorted sets in Redis, LRU of windows, counts towards a ban | checkRateLimitByIp | `LimitByIp` |
| Client identity and IP access | `utils.ts`, `core/checks/ip-access.ts` | none | extractClientIp, isIpAllowed, checkIpAccess | `Access` |
| Routes and exclusions | `core/routing/resolver.ts`, `core/validation/path-matching.ts`, `*/route-id.ts` | registered entries | register, resolve, isExcluded | `Routing` |
| Scan of a request | `utils.ts`, `core/routing/detection-exclusions.ts` | budget of one request | query, path, headers, body | `RequestScan` |
| Body forms | `detection-engine/body-form-scan.ts`, `binary-islands.ts` | parser state | multipart parts, text runs | `BodyForm` |
| Suspicious patterns manager | `handlers/sus-patterns.ts`, `detection-engine/scan-pool.ts` | custom patterns, quarantine, worker pool | detect, addPattern, removePattern, reset | `PatternScan`, `PatternRegistry` |
| Compiler, monitor, validation cache | `detection-engine/` | caches with limits, cache file | compile, record, load, store | `EngineCaches`, `PatternRegistry` |
| Behavior tracker | `handlers/behavior.ts`, `core/behavioral/processor.ts` | windows per endpoint, pattern and client | track, act | `Behavior` |
| Dynamic rules | `handlers/dynamic-rules.ts`, `models/dynamic-rule-snapshot.ts` | current rules, last update, timer, stores | initializeAgent, poll, forceUpdate, expiry, stop, hydrate, persist | `DynamicRules` |
| Cloud IP ranges | `handlers/cloud.ts`, `cloud-ip-stores.ts` | ranges per provider, store | refreshAsync, isCloudIp, reset | `CloudRanges` |
| Country database | `handlers/geoip.ts` | file, reader, snapshot in Redis | initialize, refresh, getCountry, close | `GeoIp` |
| Security headers | `handlers/security-headers.ts` | options, cache, stored options | configure, getHeaders, reset | `SecurityHeaders` |
| Decorators, configuration | `decorators/`, `models/` | none after start | set fields | inputs |
| Matchers, decoders, pattern tables, redaction, logging | `detection-engine/`, `redaction.ts` | none | string functions | not modelled (section 8) |

`PROJECT.json` repeats this list with what exactly each module leaves out.

**Interactions.** An adapter boots one engine (`Boot`) however many requests wait for
it, tries the passthrough and the bypass of the route, and calls
`pipeline.execute`; its answer, or the handler's response with headers and metrics
added, goes out. The checks call the managers. `ip_security` notes
`isWhitelisted` and `isExempt` on the request and five later checks obey them.
`rate_limit` and `suspicious_activity` count violations in one table, and a count
that reaches a threshold calls `banIp`, which later requests meet in
`ip_security`. A denied request is scanned once more on its way out
(`escalateDeniedRequest`) and may ban its sender as well. `suspicious_activity` reads
the body through the bounded reader, takes the request apart (`RequestScan`,
`BodyForm`) and shows every text to the detector (`PatternScan`), which may use
the worker pool. Dynamic rules, cloud ranges and the country database are refreshed
beside the requests. All managers write through to Redis where there is one; any
Redis operation may fail, and `pipeline.handleCheckError` decides by `failSecure` and
`redisFailOpen` whether the error blocks the request or skips the check.

**What is hard here, and the property that would notice.**

- *Check-then-act across an await*: a ban read before it is lifted
  (`NoPhantomBan`, `UnbanRemovesBan`), a rule version compared before another
  poll applies (`OnlyNewerApplied`, `ConvergesToOffer`), a slot found before the
  pool is replaced (`SlotsKeepWorking`, `LiveWorkersBounded`), two boots or two
  refreshes under way (`OneEngine`, `BlocksWhatIsPublished`, `ReaderKept`), a
  cache entry looked up before an await and written after it (`EngineKeepsBooks`).
- *Races with a deadline*: the answer of a worker or a stream against its timer
  (`ResolvedOnce`, `AnswerBelongsToScan`, `SlotsAccounted`).
- *Hand-off of a limited resource*: each release must wake a waiter, on every
  path (`SlotsKeepWorking`, `WaitersWillBeWoken`, `EveryScanResolves`,
  `EveryReadReturns`).
- *Half-done work*: a Redis operation, a sink, a download or a step of the boot
  fails, or the process dies between two stores (`RedisTtlCoversBan`,
  `RefusedOnlyOverLimit`, `SnapshotNeverLost`, `DurableRuleInForce`,
  `KnownRangesKept`, `ReachesEverySink`, `FailedBootIsForgotten`,
  `EveryCallerAnswered`, `WsFailsClosed`).
- *Flags set by one check and used by others*, under bypasses and overrides
  that address different parts of a check (`KeepsOut`, `BansAreEarned`).
- *What is skipped for a reason must not be skipped for another*: texts, views,
  fields, multipart parts (`ScansWhatIsConfigured`, `TextIsScanned`,
  `CleanMeansTried`, `AllowedMeansChecked`).
- *One meaning, many spellings*: encoded paths, entries registered in any order,
  forwarded addresses (`ExcludedIsTheSubtree`, `LongestEntryWins`, `IdentityIsEarned`).
- *What leaves the process and comes back*: patterns that were checked when they were
  added are read from Redis by other processes (`AdmittedByThisEngine`,
  `ScanSetCompiles`).
- *Reports beside answers*: the hook is called in three places, before and after a check
  may still throw (`HookTellsTheTruth`, `HookFiresOnce`); passive mode announces what it
  does not do, or does it all the same (`BansAreEarned`, `PassiveNeverBlocks`).
- *Limits of tables and windows*: an eviction must not forget or transfer what it
  should not, an expired entry must not count (`ForgetsOnlyWhenFullOrLifted`,
  `ActsOnExcess`, `LimitIsEarnedAndKept`, `AllowedWithinLimit`,
  `ServedHeadersRecent`).

The 40 entries under "hazards" in `PROJECT.json` give the lines.

## 2. Modules and how they correspond to the code

A step is one turn of the event loop: what runs between two awaits is one
action, and every await at which shared state may change ends an action. "map"
in `PROJECT.json` gives the lines of every definition. Definitions that stand
just before the one they resemble (`EvictedEager` before `Evicted`,
`DeadlineUnchecked` before `Deadline`) are deliberately wrong variants; no
specification uses them. They serve to confirm that a property notices the
mistake.

**ScanWorkerPool** - `WorkerScanPool`. A slot is the number of its worker thread.
`Dispatch` is `dispatch` up to its first await, with the take of an idle slot or
the entry into the FIFO; `WorkerAnswer` and `WorkerError` are the two worker events;
`Deadline` is the timer, which starts the termination of the worker; `Exit` is
the end of a thread, and `FinishTimeout` what `execute` does after awaiting it
(replace the slot, count, perhaps replace the whole pool, pump). `Close` and
`CloseFinish` are the two halves of `close()`. `Pump` is `pump()`, called by
every action that frees a slot, as in the code. What a scan finds is not
modelled; the answer carries which scan it is for.

**IpBan** - `IPBanManager` in several processes over one Redis. `keys` and `expiry`
are the Map with its insertion order, `redis` holds value and end of the TTL.
Each method is split at its Redis operations: `BanStart`/`BanWrite`,
`CheckStart`/`CheckGet`/`CheckResume`/`CheckDelete`, `UnbanStart`/`UnbanDelete`,
`ResetStart`/`ResetKeys`/`ResetDelete`; `RedisFails` may end any of them. The
time a check took before its read is kept and used after it, as in the code.
`IpBanAudit` adds a history variable for the promise that `unbanIp` removes a ban.

**BodyReader** - `readCappedBody`. `Enter` (installs the limit of the
config), `Acquire` (a cached prefix that is long enough, a slot, or the queue), `Refuse`,
`Settle` (the adapter's read ends in time), `Timeout` and `SettleLate` (the read that lost
the race ends). `Release` is `releaseSlot` with the wake-up of the first waiter in the
same turn.

**RateLimit** - `checkRateLimit` for one tier after the other, in the order route,
session, endpoint, geo, global of `RateLimitCheck`. `Eval` runs the Lua script
atomically, `NoScript` and `Reload` are the retry after a flush, `Zadd`, `Zrem`,
`Zcard`, `Expire` are the single commands of a process that never loaded the
script, and `Fallback` the in-memory list after a failed operation. A Redis
member is its timestamp, as in the code. What the lists in memory of this limiter, of
the one by IP and of the behaviour rules have in common - cut what precedes the first
timestamp in the window, push the new one - is **SlidingWindow** (`Kept`, `Pushed`).

What is promised has conditions, which the properties name. A refused request's key
has had more requests than its limit, whatever fails; that they lie in one window holds
while Redis works, the script is loaded everywhere and flushed once at most
(`RedisSound`; a second flush makes the retry fail as well), and without Redis. That no
more pass than the limit holds in a process without Redis if tiers with one key have one
limit (`OneLimitPerKey`): the endpoint and geo tiers may share the route's key, and a
tier with a shorter window drops what one with a longer window still has to count.

**CheckPipeline** - `execute` with what a check decides left open: pass, answer,
log only (passive mode) or throw an error of Redis or another one. `NextCheck` is
the iteration over the live array that `AddCheck`, `InsertCheck` and `RemoveCheck` splice.
`Block`, `BlockUnresolvedRoute`, `LogOnly` and `Throw` model who calls the hook, in
whose name and how often (`fired`), and which stashed reason it is told. `route_config`
calls it before it makes its response, so a `Throw` of it may follow the call
(`ReportsFirst`): a request that is then let through has been reported.

**DynamicRules** - `DynamicRuleManager`. A rule is its place in the order of
publication. Boot (`InitializeAgent`, `ReadRedis`, `ReadFile`, `BootWriteFile`,
`BootRename`) precedes the timer; a poll is `StartPoll` (with the expiry check),
`AgentAnswers`/`AgentFails`, `Receive` (the acceptance test and the announcement),
`Apply`, `Activated` and the persistence. The cache file is written to a
temporary file and renamed. `Crash` may happen at any time and keeps what is in
Redis and in the file.

**Guard** - one request's way through the whole pipeline, and many at once.
Each of the 17 checks is an operator (those that depend on request, route and
configuration only: `Violates`) or an action (`BanCheck` and `Access` for
`ip_security`, `UserAgent`, `RateLimit`, `SuspiciousActivity`). `Advance` runs
a check of the first sort. What a check reads off a request is a *fault* of the
request; whether a fault matters is decided as in the code by configuration,
route, bypass and the flags. `IncrementSuspiciousCounts`, `ReachesThreshold`
and `CountAndBan` are the helpers of the same names; `Escalate` is
`escalateDeniedRequest`; `Fail` is the error policy. Here a ban is membership of
a set that `BanEnds` may end at any time, and the rate limiter's verdict is a
fault; `IpBan` and `RateLimit` treat them in detail.

**Boot** - a boot is one call of `initialize()`: `StartsBoot` is the single flight of
`initPromise`; then `ResolveAgent`, `ConnectRedis`, `AttachRedis` for each manager,
`InitGeo`, `Integrate` for each manager that gets the agent, and `Wire`, in the order
of `HandlerInitializer`. Each awaited step may fail: Redis and the integrations are
survived, an agent only without `agentStrict`. `ForgetFailed` is the reset of
`initPromise`, which lets the next request try again. A surface boots an engine of its own: the
HTTP middleware, and a WebSocket guard that was given no components.

**Adapter** (extends Boot) - a caller from `Arrive` to its answer. It starts or joins a
boot and goes on with its end (`Resume`). An HTTP request then meets `Passthrough`,
`SecurityBypass`, `Execute` (the pipeline, any verdict), `UsageRules`, `CallHandler` and
`ProcessResponse`, or `FinishesAnyway` when that throws (`.then(finish, finish)`); an
upgrade meets `Identify`, `BanCheck`, `ListsAndRate`, `Detection` and `Forward`, with the
error policy `Tolerates` at each. Where the four frameworks differ the action asks
`adapter.framework`; where they share a definition, "map" names one of the four.
**Gate** is what all of this promises (`Ready`, `Admit`, `Serve`, `Close`);
`ImplementsGate` is the refinement, with `ready` the surfaces whose engine is assigned and
`gate` each caller's place.

**Events** - what `SecurityEventBus` and `MetricsCollector` report for a request, the
filter, the enricher (which writes into metadata all sinks share) and the loop over
the sinks, one awaited call at a time. An inbox keeps payload and metadata as
each sink saw them.

**LimitByIp** - `checkRateLimitByIp`: four awaited commands on a sorted set, or one
step on the LRU map; a refusal feeds the automatic ban of a manager made for the call.
Each map is a function, with the empty value for an absent key, and the order of its
keys; `Lru` and `LruOrder` are the pop, the eviction and the insertion of `lruPopOrCreate`.
A refusal is measured by its `Company`: the other calls of its key recorded since its
window began.

**Access**, **Routing**, **RequestScan**, **BodyForm** - decisions without waiting:
the loops of the code are steps of the module over one request, list, path or body,
and each states what must come out independently of how it is computed. Addresses are
model values that lists cover; a path is a sequence of segments with
the number of times each is encoded; a JSON value is a node with children; a
multipart body is a sequence of lines of a few kinds. `Routing` keeps every registration
(`registered`), so that `LongestEntryWins` can say what the sorting after each of them
must come to: the longest entry that matches the path *as it is spelled*, and the first
registered of equally long ones. Spelling matters there, unlike for exclusions
(`ExcludedIsTheSubtree`).

**PatternScan** - `detect` on a text: the views that are derived for its context,
the tables and exclusions per view, the inline supervisor with overshoots and
quarantine (`ScanPoolSupervisor`) or the worker pool, `ensureWorkerPool` with its
await, `reset` under running scans, and the verdict from weights, semantic score and
skipped categories. Which views a pattern matches in is a property of the text. The
patterns of a pass are a set of places in the list as it was when the pass began, taken
in their order (`Turn`); the anomaly is the number of points of the threats (`Points`), a
threat having as many as its pattern weighs.
**PatternRegistry** - custom patterns of several processes over Redis and the cache
file of safety verdicts, with restarts under another engine version. `Hydrate` takes what
Redis holds, split at its commas (`Pieces`), into force without a probe, as
`initializeRedis` does; only `addPattern` probes.
**EngineCaches** - `PatternCompiler.compile` and `PerformanceMonitor.recordMetric`
split at their awaits.

**Behavior** - `trackEndpointUsage` and `trackReturnPattern` under the loops of
`BehavioralProcessor`, with rows shared by rules and evicted in order; event and
action are awaited, so requests overlap there. `Correlated` is read once, when the first
of the global rules has its turn.

**CloudRanges** - `refreshAsync` per provider: store, download, store, network
regions; the Redis store with its entry per provider and the old single key, the
in-memory store, reset. **GeoIp** - `initialize`, `refresh` and `close` over file,
snapshot in Redis and reader. **SecurityHeaders** - `configure`, `getHeaders` with
its cache, `initializeRedis`, `reset`.

**Composites.** `MCServing`, `MCDetection` and `MCRefresh` extend several components;
a variable `focus`, fixed at the start, says which of them moves, and the others stay
in one initial state. Components that share no state are so checked with one another's
variables in scope and at the cost of a sum, not of a product. Components that
do interact (boot, adapters and WebSocket guard; the checks, counters and bans
of `Guard`) are composed for real, in one next-state relation.

## 3. Runs

Each passing run's bounds are chosen so that every action fires and the
situation its properties are about occurs; for each property a faulty variant of
the code that violates it under the same bounds is recorded under "mutants".

| Run | Bounds | Shows |
|---|---|---|
| `MCIpBan` | 1 process, 2 overlapping calls, 2 IPs, map of 2, durations 1 and 2, time to 4; 1.7 million states | no "banned" without a ban in force, the key outlives the ban, a ban in force is dropped only when lifted or for room |
| `MCServing` | scan workers: 3 scans, pool of 2, at most 7 threads; body reader: 5 calls on 3 requests, limits 1, 2 and none; adapters: two requests and an upgrade, 4 boots, 2 failures of boots and 2 of callers, 8 deployments over the 4 frameworks; events: 2 reports, 3 sinks, 2 failures; 303,000 states | answers, errors, deadlines, whole-pool replacement and close in any order: the pool keeps its size, no scan waits beside an idle worker, each is resolved once with its own answer and, with fair timers, eventually; exact count of reads, no lost waiter, every read returns; one engine per surface, failed boots forgotten, adapters implement `Gate` and answer every caller, upgrades fail closed; each sink gets what it should |
| `MCDetection` | pipeline: 4 checks, 2 edits; rate limit: 4 requests, 2 processes, 3 deployments; by IP: 4 calls; scan: 11 requests under 5 exclusions, multipart bodies of up to 6 lines; detector: 2 calls, 3 patterns, 2 texts, 2 pools; caches of 2 over 3 keys; registry: 2 processes and engine versions; behavior: 3 visits, 2 rule sets; paths of up to 3 segments over 10, 5 route entries; addresses behind up to 2 proxies under 1,024 configurations; 1.8 million states | every judgement on a request is made on all that it is meant to be made on: checks, texts, views, windows, path, address |
| `MCRefresh` | rules: 3, 2 overlapping polls, 1 crash, 3 deployments; clouds: 2 providers, 2 overlapping refreshes, 4 stores, 2 failures; country database: 2 overlapping jobs, 2 failures, good and broken editions; headers: 2 paths, cache of 1; 235,000 states | snapshot never lost, offered rule in force, expired ones dropped; ranges kept and in the end right; reader kept until close; headers recent |
| `MCGuard` | 3 requests, 2 IPs, table of 1, 20 kinds of request, 6 configurations; 3.1 million states | what is admitted keeps every rule in force, bans hold, have a cause and spare the whitelist, in passive mode nobody is banned and only the application's own checks refuse |

Seven runs state what a document or comment says and are expected to fail:

| Run | What is said | What the code does |
|---|---|---|
| `MCScanWorkerPoolLiveWorkersBounded` | "Live worker count (bounded by construction)" | a timeout that resumes after its slot has left the pool writes `slots[-1]`; the new thread is in no slot and is never terminated |
| `MCIpBanUnbanRemovesBan` | "`unbanIp(ip)` -- Remove a ban" | a check that read the key before the deletion puts the ban back into its map |
| `MCRateLimitTiers` | `requests` is the maximum "allowed in the window" | the route, endpoint and geo tiers share a key, so one request counts twice |
| `MCDynamicRulesOnlyNewerApplied` | "only applies rules with a newer version than the current set" | versions are compared before an await and the rules are assigned after it |
| `MCGuardPassiveNeverBlocks` | in passive mode checks "log violations but return `null`" | the answers of custom_request and custom_validators are returned all the same |
| `MCCheckPipelineHookFiresOnce` | the hook is "fired exactly once per blocked request" | for a route that cannot be resolved the check calls it and the pipeline does so again; a fail-secure 500 never calls it |
| `MCPatternRegistryScanSetCompiles` | "detect() cannot hit an invalid regex at scan time" | a pattern with a comma comes back from Redis in pieces, which nobody validates and which need not compile |

**Why the bounds suffice.** *ScanWorkerPool*: two workers are the least for which
a single timeout differs from a whole-pool replacement, the third scan waits in
the queue; 7 threads allow every spawn these scans can cause. *IpBan*: the
properties concern one IP in one process disturbed by one other call, or an
eviction, which needs a second IP; the proofs remove the bounds. *BodyReader*:
two limits, one waiter ahead of another, and two calls on one request. *Boot* and
*Adapter*: two requests find a boot under way, failed or ready in every
combination; two failed boots, a third that succeeds and one for the upgrade make
four. *Events*: two reports whose sends interleave, a sink that throws between two
that do not. *RateLimit*: limits of 1 and 2 per window of 2 are exceeded with three
requests, the fourth is exempt; time runs on until the first window has passed.
*LimitByIp*: limit, ban threshold and map of 1, so that the second call of an address is
refused and bans it and the call of another address evicts; the fourth call is invalid. *CheckPipeline*: the loop treats requests
separately, so one request against two edits is enough; the four checks are one of each
kind. *RequestScan*: each branch of the walk (JSON in a value, excluded field above
and below it, operator keys, array, depth cap, budget) is one of the requests.
*BodyForm*: three lines inside two boundary lines hold every pair of a header and
what it changes. *PatternScan*: one pattern each that lives in the raw view, in the
decoded view and in all of them; two calls suffice for a reset or a second pool
under a scan. *PatternRegistry*: one pattern with a comma and its two pieces, one of which
compiles. *Behavior*: windows of 2 and thresholds of 1 and 2 with two visits
of one client and one of another. *Routing*: three segments hold `a/../b` and every
encoding of it; three batches of entries, of which two are registered, one after the
other. *CloudRanges*, *GeoIp*: two overlapping activations, one
change of what is published. *DynamicRules*: an upgrade of a rule and a rule with
another id, the two branches of the acceptance test. *Guard*: a threshold of 2 and
one of 1, reached by two requests while a third is under way; a table of 1 makes
every second IP evict. Requests are interchangeable there, in `IpBan` the IPs and
calls are, and in `PatternScan` the calls of `detect`, hence the symmetry sets;
runs with liveness use none.

Deadlock checking is off in every run, because each instance has finitely many
requests, calls or ticks, and then stops. Progress is stated by the liveness
properties instead.

## 4. Fairness

- *ScanWorkerPool*: deadlines expire, terminated threads exit, and a suspended
  function resumes. Nothing is assumed of answers: a regular expression may
  run for ever, which is what the pool is for.
- *BodyReader*: the timeout expires and a granted slot is taken up. No fairness
  for the stream: it may never end.
- *Adapter*: awaits of a boot and of a request that is under way come back, with
  success or an error. Requests need not arrive.
- *DynamicRules*: the interval timer ticks, file and Redis operations return
  (with success or not), a crashed process is started again. The agent is
  assumed to answer again and again if it is asked again and again (strong
  fairness of `AgentAnswers`): a permanently failing agent cannot be converged
  to. Nothing is assumed of `forceUpdate`, `stop` or publication.
- *CloudRanges*: awaits come back, the refresh interval elapses, entries of a store
  expire at last. That requests keep asking is a premise of the property itself, for
  it is requests that trigger refreshes.

The other modules have no liveness property: a request there proceeds as long
as Redis and the checks return.

## 5. What is proved

Eight modules hold the theorems. They are about every value of the constants - any
sets of workers, scans, processes, calls, requests, IPs, surfaces, rules, any sizes,
thresholds and lengths of time - and take nothing but the assumptions named in the modules
they are about. Each follows one pattern: an invariant that `Init` implies and
every action keeps (`InitInv`, one lemma for an action or a group of them, `NextInv`),
from which the property follows. TLC checked the inductive invariants on the constants of
the runs, those of `LimitProofs` apart, which quantify over all integers.

| Module | Proved for all constants | Assumption |
| --- | --- | --- |
| `IpBanProofs` | `TypeOK`, `NoPhantomBan`, `RedisTtlCoversBan`, `ForgetsOnlyWhenFullOrLifted` | `IpBanAssumption`: a call runs in a process; durations and the map's size are positive |
| `ServingProofs` | `TypeOK`, `SlotsAccounted`, `WaitersWillBeWoken`, `BudgetKept`; `OneEngine`, `WsFailsClosed`, `FailedBootIsForgotten`, `ImplementsGate` | `BodyReaderAssumption`: finitely many reads, natural limits; `BootAssumption`, `AdapterAssumption`: an eager start is the first boot of an HTTP surface; every surface has callers |
| `ScanWorkerPoolProofs` | `TypeOK`, `SlotsKeepWorking`, `AnswerBelongsToScan`, `ResolvedOnce` | `PoolAssumption`: finitely many scans, a positive size, `MaxWorkers` no less |
| `CheckPipelineProofs` | `HookTellsTheTruth`, `AllowedMeansChecked` | `PipelineAssumption`: the list holds names |
| `GuardProofs` | `KeepsOut`, `BansAreEarned` | `GuardAssumption`: finitely many categories, room in the table, configurations that the models accept (`IsConfig`) |
| `RefreshProofs` | `DurableRuleInForce`, `SnapshotNeverLost`, `KnownRangesKept`, `ReaderKept`, `ServedHeadersRecent` | those of the four modules: an `id` is not published again with an older version; editions count from 1; at least one attempt; positive life time and size of the cache |
| `DetectionProofs` | `AdmittedByThisEngine`, `IdentityIsEarned`, `EngineKeepsBooks`, `ReachesEverySink`, `CleanMeansTried` | `PatternRegistryAssumption`: what is offered, compiled or dangerous are sources, and what a source is split into is not split further; `AccessAssumption`: the depth is positive, and a proxy is called from an address; `EngineAssumption`: positive cache size and cooldown; `EventsAssumption`: no handler is in the composite twice; `PatternScanAssumption`: patterns and texts have their traits, weights and the threshold are natural, the pool is not empty |
| `LimitProofs` | `RefusedOnlyOverLimit`, `AllowedWithinLimit`, `LimitIsEarnedAndKept`, `ActsOnExcess` | `RateLimitAssumption`: finitely many requests, limits and windows are natural; `LimitByIpAssumption`: finitely many calls, positive limit, window, cap and ban threshold; `BehaviorAssumption`: finitely many requests, room for a row, a global rule has a threshold of one at least |

*IpBan.* `IInv` is `TypeOK`, `CallsBounded`, `StoresBounded`, `NoPhantomBan` and
`RedisTtlCoversBan`. `NoPhantomBan` alone is not inductive: an answer comes from
a map or from a value read earlier, so every expiry in a map, in Redis and in a
suspended call must be bounded by the longest ban issued for its IP, and that is what
`StoresBounded` and `CallsBounded` say. `RedisTtlCoversBan` needs that the pending write
carries an expiry computed no later than now. `ForgetsHolds` is an action property:
what `DeleteLocal`, `ClearLocal` and the eviction remove.

*BodyReader.* `IInv` is `TypeOK`, `SlotsAccounted`, `QueueOnce`,
`WaitersWillBeWoken`, `LimitInstalled` and `BudgetKept`. That the counter is the
cardinality of the reads with a slot is kept by `Release` only because the woken
waiter is queued once and holds no slot (`QueueOnce`); that a waiter is woken
follows because somebody holds a slot whenever the queue is not empty, which needs
that the installed limit is positive.

*ScanWorkerPool.* That an answer belongs to its scan rests on who may be heard on a
slot: a resolver is installed on the slot its dispatch runs on (`WaiterIsOwn`), a task in
a worker's inbox is that of a dispatch that went to this worker (`TaskIsOwn`), and a slot is
busy while a scan is on it (`SlotHeld`). A worker may still hold the task of
a dispatch that timed out, but then it is no slot of the pool any more.
`Pump` and every event that calls it are treated by one lemma (`PumpKeeps`): from a
consistent pool with perhaps an idle slot it reaches one without. `ResolvedOnce` needs the
same facts, for the four ways to resolve a dispatch never find one that is resolved.

*Boot and Adapter.* `IInv` adds to the types `SingleFlight` - a surface that has an
engine or a promise has the boot that it names, which is under way or has succeeded, and no
other boot of the surface is under way - and for each caller `Fits`: the boot it
waits for is of its surface, the engine that judged it is that of its surface, and
what it went past is what the policy tolerates. `ImplementsGate` maps a caller to its
place (`Place`); a boot step either changes nothing that `Gate` sees or is `Ready`,
a caller's step is `Admit`, `Serve`, `Close` or a stutter (`TakesOn`).

*CheckPipeline.* Why nothing that stays in the list is missed: what a request still has to
meet is what it ran or what lies ahead of the iterator (`NoneMissed`, `Ahead`). An
`AddCheck` or `InsertCheck` only ever pushes checks away from the front, so nothing ahead
falls behind; a removal excuses the requests under way. `FiredRightly` counts the calls of
the hook in each check's name (`CountedRightly`): none before the check answers, one
after, and of `route_config` at least one where it answered and perhaps some where it
threw. `ToldRightly` says that nothing is stashed while errors end the request.

*Guard.* `KeepsOut` speaks of the end of a request, so the invariant carries what each check
leaves behind on its way there: where it is (`Placed`), that from `ip_security` on its
flags are what lists and bypasses make of its address unless the check was skipped
(`Flagged`), that the ban and the lists were asked (`AskedFor`), that every rule of the
checks behind it was kept, waived or skipped for an error (`Passed`). `HeldBack` relates
requests to bans: whoever was banned when a request came is banned still unless the ban
ended. `BansAreEarned` needs the table's shape (`TableOK`: keys are distinct, no more than
the limit, present exactly where counts are not zero) and that counts never exceed the
violations of an IP ever counted, of which the total only grows (`TotalGrows`, the reason
for finitely many categories).

*Refreshed data.* Of the ranges: a refresh that is about to store holds an edition
that was published, never 0, also when the store gave it (`CloudInv`). Of the country
database: what an open reads may be broken, but only a good one is installed. Of the
headers: every entry of the cache is backed by a configuration that was in force when it was
made (`Backed`), so the age test is enough. Of the rules: `Underway` (no poll before the
hydration is over), `Alone` (while one poll runs, its rule is in force or in Redis) and
`Kept` (a durable rule is in every store, and no poll that accepted another is under
way) together are what makes the last writer the right one; `SnapshotNeverLost` needs
only that what is renamed into place is a rule (`Underway`), at start and after a poll.

*What a request is judged by, and what is reported of it.* Of the custom patterns:
every verdict that says "safe", in a process or in the file, is the outcome of a probe
under the version it is stamped with (`Witnessed`), and a process only has verdicts of its own
version. That is claimed of `addPattern` alone: what comes from Redis is in force unprobed,
and only known to be a piece of something that once passed a probe, because Redis holds
nothing but such pieces (`Sourced`). Of the identity: with as many proxies as the depth, the entry counted from the right
is the one that the first of them appended, however much the client wrote before it
(`ForwardedIsClient`). Of the compiled expressions: every cached key is in the order; until
calls overlap the order lists the cache, each key once (`OrderIsCache`, so its length
is the cardinality that the eviction asks for), and the one call that waits has room
(`RoomForTheOneWaiting`). Of the batches: the last one of a pattern was begun at its
`lastEmitAt`. Of the events: for each payload the invariant says which sinks have been asked
to take it (`Asked`) and that exactly those have it that could and did not throw
(`Delivered`); the payloads of two calls differ, so calls cannot disturb one another
(`OneCallMoves`).

*The scan of a text.* `CleanMeansTried` speaks of the end of a scan; `ScanInv` says the same
of what a call has left *behind* on its way there (`Tried`): in every view that is over,
and for every pattern of the present view whose turn has been, a decisive pattern that
matches is reported or excused. A new pass starts with every pattern in force that is meant
for its view (`PassIsComplete`), so nothing falls behind untried, and what was in force at
the start and is no more is no longer claimed (`ForgetMoves`). The excuse of a quarantine
needs the supervisor's books (`QuarantineIsDeserved`): no more timeouts are counted than
overshoots in a row, and a pattern is locked out only by as many of them as the pool has
workers, for no longer than the cooldown after the last. At the end one reported pattern
that decides alone has points enough for a threat (`DecidedAlone`).

*The sliding windows.* A list of timestamps stands for a set of events, and two relations
say how, each kept by a push (`Pushed`). A list *remembers* the events (`Remembers`) if
for any time since the window began no more of them came after it than the list has
entries, less those at its head that precede it: nothing in the window is missing. A
list *accounts* for its entries (`Accounts`) if each, with all that follow it, is matched
by as many events that late: nothing counts twice or from before the window. The
first gives that excess is acted upon (`ExcessIsSeen`) and that the limit bounds what passes
(`PassesAreFew`), the second that what is refused or acted upon was in excess
(`ExcessIsReal`, `RefusalsAreJustified`). What may break either is named: a row that another
rule cuts or another client displaces, a key with two limits, a list to which requests
that waited for Redis append times out of order. Where Redis counts, a sorted set has only
times that requests took (`ZsetIsHits`, `InstantsAreCalls`); with a script that is
everywhere loaded no single command is ever sent and one flush is mended by the reload
(`ScriptIsMended`). Of `checkRateLimitByIp`, `CountIsFresh` is why a late ZADD of another
call does no harm: an instant that comes back between trim and count was recorded
after the window began. `RedisKeeps` says that the instants of calls in the window are all
in the set while nothing fails or expires, so those that pass began at no more instants
than the limit; `MemoryKeeps` says it of the map, and `BansAreRefusals` that the automatic
ban's counts are covered by refusals it was told of.

The proofs cite FiniteSetTheorems for cardinalities and SequenceTheorems for the
order of queues, maps and lists.

**Only model-checked**

- The liveness properties `EveryScanResolves`, `EveryReadReturns`, `EveryCallerAnswered`,
  `ConvergesToOffer`, `ExpiredRuleRetires` and `BlocksWhatIsPublished`: the prover
  does not treat fairness.
- What a request's texts are and where it goes: `ScansWhatIsConfigured`, `TextIsScanned`,
  `ExcludedIsTheSubtree` and `LongestEntryWins`. None of their modules uses a RECURSIVE operator, but what they
  compute by a fold or a recursive function over a request, a body or a path
  (`RequestScan`, `BodyForm`, `Routing`) would need induction over that data, which the
  prover's library offers only through operators it cannot instantiate.

## 6. Observations

Disagreements between code and its documents met while modelling, which no run
is spent on:

- *scan-worker-pool.ts:308* - a timeout finishing during `close()` refills the
  drained pool and starts queued scans (:218-220 say they never start).
- *ip-ban.ts:153* - a restore from Redis adds to the map without evicting, so it
  grows past `maxSize` (architecture/handlers.md:41).
- *ip-ban.ts:160* - an expired value is deleted after an await; a newer ban written
  in between goes with it.
- *bounded-body-reader.ts:103* - reads that lost against the timeout continue, so
  the adapters read more bodies at once than the budget (:3-4); *:78* - reads that
  were overdue in the queue still read (:70-72).
- *rate-limit.ts:16* - the timestamp is the member, so requests of one instant count
  once in Redis (configuration/rate-limiting.md:20); *:161* - a request that falls
  back after a slow Redis call appends an older time to a list trimmed as sorted;
  with single commands a request may be refused for a hit just out of the window.
- *pipeline.ts:114* - `remove` during `execute` makes a request skip a check
  (architecture/security-pipeline.md:6); *:48* - errors block under failSecure (:44).
- *route-config.ts:46* - RouteConfig may block although security-pipeline.md:12 says
  "Never blocks." *:32* - when its response cannot be made, a request that `failSecure:
  false` then lets through has been reported as blocked.
- *dynamic-rules.ts:111* - with both stores and a failed Redis write, the older
  rules in Redis win over the newer cache file at the next start.
- *https-enforcement.ts:28* - a route's configuration replaces the global
  enforceHttps instead of adding to it (security-pipeline.md:14).
- *helpers.ts:231, :287* - `autoBanThreshold` counts categories, not requests
  (quick-start.md:125); counters are not reset by a ban, so one further violation
  bans again.
- *ip-security.ts:266* - if `ip_security` is skipped for a Redis error under
  redisFailOpen, the flags stay unset and a whitelisted IP may be scanned and banned;
  likewise a request whose own auto-ban throws is let through.
- *rate-limit.ts:46* - a route may name a check to bypass it, and the names "correspond
  to the 17 checks" (decorators/access-control.md:71), but only `ip`, `ip_ban`, `clouds`,
  `penetration` and `all` are asked for: a route that bypasses `rate_limit` still refuses.
- *helpers.ts:389* - the escalation scans with the default manager and configuration,
  so excluded parameters count towards a ban.

Of the adapters and the initialization:

- *express/src/middleware.ts:117* (and the three others) - an excluded path, or a route
  that bypasses all checks, is answered with an empty 200 in the place of its handler,
  although excludePaths are "URL paths to skip all security checks"
  (configuration/security-config.md:180). `Adapter` models it (`Passthrough`).
- *core/responses/factory.ts:93* - behaviour rules on responses count under
  `request.clientHost`, not under the extracted client address. A return rule that throws
  costs the response its security headers. Fastify's refusals pass `onSend` and
  are counted by return rules; those of the other adapters are not.
- *express/src/middleware.ts:193* - without `lazyInit` the start is `void initialize()`:
  a failed one is an unhandled rejection. Hono replaces a served response by an
  error when `processResponse` throws.
- *handler-initializer.ts:88* - when Redis fails half way, the managers connected
  before keep it, although the log says they fall back to memory. *:109-118* - the
  OpenTelemetry and Logfire handlers are built without instrumentation, so they stay
  disabled and the composite is never healthy. *:181-208* - security headers and the
  registry's behaviour tracker never get the agent.
- *middleware-support.ts:61* - `cloudIpStore` is not passed on; *:91* - the behaviour
  tracker of the enricher is not the one the pipeline uses.
- *node-websocket-guard.ts:163* - an error of the lists or the limiter rejects the
  upgrade even under `redisFailOpen`.
- *express/src/route-id.ts:97-98* - says the FIRST matching layer, but an undecorated
  first match falls through to the next; the endpoint id ignores the method.
- *enricher.ts:17-19* - "ships unenriched", but what an earlier strategy added stays.

Of routes, identity and access:

- *resolver.ts:39* - path-keyed configurations match the raw path, exclusions the
  normalized one; an exact path and a wildcard of equal length are ranked by
  registration.
- *utils.ts:188* - with more trusted proxies than forwarded entries the first entry,
  which the client wrote, is taken. *:403* - "Entries stay verbatim", but they are
  lower-cased.
- *ip-access.ts:9-11* - says it is the shape `isIpAllowed` computes, but there a
  whitelist goes before the blacklist and skips the country.

Of the detection:

- JSON in a query, header or form value is scanned as a whole although
  excluded fields inside are skipped in the walk; below the depth cap exclusions do not
  apply. *body-form-scan.ts:20-21* - a nested container whose boundary never
  appears contributes no part; its preamble is not scanned.
- *sus-patterns.ts:724-734, :765-773* - `threatCategories` has the skipped categories
  too, which then count towards a ban. *:516* - two first scans build two worker
  pools, and only the one in the field is ever closed. A scan of a closed pool is an
  error without a verdict; a pattern that times out is listed twice.
- *compiler.ts:106* - overlapping misses let the cache grow past `maxCacheSize`.
- *monitor.ts:220* - the emission cooldown returns before the local callbacks as well;
  clearing the statistics keeps the time of the last emission.
- *sus-patterns.ts:269* - the processes overwrite one another's list of custom patterns.

Of the refreshed data:

- *cloud.ts:105-112* - ranges that were fetched are dropped when the store fails; the
  refresh passes no time to live (redis-keys.md:14); reset deletes
  `cloud_ranges:*`, not the old key `cloud_ranges_v2`; requests beside the first
  refresh see no ranges.
- *geoip.ts* - a download is put into Redis before it is opened, and a corrupt snapshot
  overwrites and thereby deletes a good local file; after a failed download an outdated
  but good file is not opened; overlapping openings may install the older one. A refresh
  that is under way at `close()` opens a reader again, which nothing closes.
- *security-headers.ts* - CSP and HSTS that were removed from the configuration are read
  back from Redis at start and stored again; `enabled: false` leaves them in force;
  `configure` does not await what it stores; with `securityHeaders` null
  `enableCors` sends no CORS headers.
- *rate-limit-by-ip.ts:215-216* - says that calls of a banned IP neither count nor ban
  again, but the manager asked is new and knows no ban. Timestamps that fall back out of
  order keep a stale entry in the list.
- *behavior.ts* - two usage or frequency rules of one route share a row, as do a
  route's and a global return rule with one pattern, and so count double.


## 7. Plan

The components that keep state are modelled, and so are the decisions that precede
them. What remains, in this order:

1. **Proofs** of `RequestScan`, `BodyForm` and `Routing`, with the walk over a request, a
   body or a path as steps over an index instead of folds.
2. **BanList**: an abstract ban list (a ban may be issued, seen, forgotten, lifted;
   never invented) that `IpBan` implements and `Guard` uses in place of its set.
3. **Scan**: `PatternScan` over the slots of `ScanWorkerPool` instead of an abstract
   pool that answers.
4. Decisions of single checks that are now inputs: time windows, referrers, credentials,
   `matchEvent` of dynamic rules.

## 8. Not modelled, and why

- Matchers, decoders, the HTML entity table, semantic scoring and the pattern
  sources: functions of character data; a model would be a transliteration and
  TLC could only try strings that say nothing about the next one. They are a third of the
  lines of the implementation.
- What a pattern matches, CIDR arithmetic, header parsing, time windows: the models take
  the verdict as an input.
- Decorators and configuration models: they set fields before requests arrive. The
  modules take the result as constants.
- Log wording, redaction, bodies of error responses, the calls of OpenTelemetry's and
  Logfire's clients: they change no state of the guard.
- The content of downloads (country database, cloud ranges): they are good or
  broken, and have an edition.
- Byte-level capping of bodies and the field-by-field snapshot format.
- Loss of Redis data other than by TTL, deletion and the flush of scripts.
