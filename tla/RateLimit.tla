----------------------------- MODULE RateLimit -----------------------------
(***************************************************************************)
(* The sliding-window rate limiter: RateLimitManager.checkRateLimit of     *)
(* handlers/rate-limit.ts, called once per tier by RateLimitCheck.check of *)
(* core/checks/implementations/rate-limit.ts.                              *)
(*                                                                         *)
(* A tier takes the time, then counts itself in Redis, with a Lua script   *)
(* that is loaded again after NOSCRIPT or with single commands when it was *)
(* never loaded, and in the process's own lists when Redis fails.  The     *)
(* calls of concurrent requests interleave at every Redis operation.       *)
(* Configurations with enableRateLimitAutoBan off (the default).           *)
(***************************************************************************)
EXTENDS SlidingWindow, FiniteSets

CONSTANTS
    Procs,
    Requests,
    IpOf, PathOf,    \* clientHost and urlPath of a request
    SessionOf,       \* the value of the request's session header, NoSession if absent
    NoSession,
    CountryOf,       \* geoHandler.getCountry(clientIp)
    Exempt,          \* requests with isWhitelisted or isExempt
    Configs,         \* the deployments, one of which a behaviour is about (see config)
    MaxTime,         \* bound: the clock stops here
    MaxFlushes       \* bound: failovers or SCRIPT FLUSHes

\* A limit of a tier; those of decorators are whatever numbers they were given.
Limit == [limit : Nat, window : Nat]

ASSUME RateLimitAssumption ==
    /\ IsFiniteSet(Requests)
    /\ Exempt \subseteq Requests
    /\ MaxTime \in Nat /\ MaxFlushes \in Nat
    /\ \A c \in Configs :
         /\ c.procOf \in [Requests -> Procs]
         /\ c.globalLimit \in Limit
         /\ \A r \in Requests :
              /\ {c.routeLimits[PathOf[r]], c.sessionLimits[PathOf[r]],
                  c.endpointLimits[PathOf[r]]} \subseteq Seq(Limit)
              /\ \A code \in DOMAIN c.geoLimits[PathOf[r]] : c.geoLimits[PathOf[r]][code] \in Limit
         /\ c.passive \subseteq Procs /\ c.scriptLoaded \subseteq Procs
         /\ {c.hasRedis, c.redisMayFail} \subseteq BOOLEAN

VARIABLES
    config,    \* procOf: the process that serves a request; passive: the processes in
               \* passive mode; hasRedis: is there a redisHandler with a client;
               \* scriptLoaded: the processes whose SCRIPT LOAD at start gave a
               \* rateLimitScriptSha; redisMayFail: may a Redis operation throw; and
               \* routeLimits (rateLimit of the route), sessionLimits, endpointLimits
               \* and geoLimits, by path, with globalLimit
    now,       \* Date.now()
    zset,      \* the sorted sets in Redis: a member is a timestamp, its score itself
    until,     \* the end of each sorted set's TTL
    lists,     \* requestTimestamps of each process
    script,    \* does Redis have the script cached?
    flushes,
    req,       \* where a request is: pc, its tier i, the time t it took there, a count n
    hits       \* history: <<r, i, t>> when request r took the time t for its tier i

vars == <<config, now, zset, until, lists, script, flushes, req, hits>>

-----------------------------------------------------------------------------
(* The tiers of a request, in the order check() applies them.              *)

Tier(ip, scope, lim) ==
    [key |-> <<ip, scope>>, limit |-> lim.limit, window |-> lim.window]

\* The scope of the tier that is for all paths.
NoScope == ""

\* The tiers that a sequence of zero or one limits stands for.
Optional(ip, scope, lims) == [i \in 1..Len(lims) |-> Tier(ip, scope, lims[i])]

\* checkGeoRateLimit: the country's limit wins over "*".
GeoTier(cf, r) ==
    LET limits == cf.geoLimits[PathOf[r]]
        codes == {CountryOf[r], "*"} \cap DOMAIN limits
    IN IF CountryOf[r] \in codes THEN <<limits[CountryOf[r]]>>
       ELSE IF "*" \in codes THEN <<limits["*"]>> ELSE <<>>

\* The route, endpoint and geo tiers count under one key, <ip>:<urlPath>.
TiersUnder(cf, r) ==
    LET ip == IpOf[r]
        path == PathOf[r]
    IN Optional(ip, path, cf.routeLimits[path])
       \o (IF SessionOf[r] = NoSession THEN <<>>
           ELSE Optional(ip, SessionOf[r], cf.sessionLimits[path]))
       \o Optional(ip, path, cf.endpointLimits[path])
       \o Optional(ip, path, GeoTier(cf, r))
       \o <<Tier(ip, NoScope, cf.globalLimit)>>

KeysUnder(cf, r) == {TiersUnder(cf, r)[i].key : i \in DOMAIN TiersUnder(cf, r)}
AllKeys == UNION {KeysUnder(cf, r) : cf \in Configs, r \in Requests}

Tiers(r) == TiersUnder(config, r)
ProcOf(r) == config.procOf[r]

-----------------------------------------------------------------------------
Waiting == {"eval", "reload", "retry", "zadd", "zrem", "zcard", "expire"}

Cur(r) == Tiers(r)[req[r].i]

Init ==
    /\ config \in Configs
    /\ now = 1
    /\ zset = [k \in AllKeys |-> {}]
    /\ until = [k \in AllKeys |-> 0]
    /\ lists = [p \in Procs |-> [k \in AllKeys |-> <<>>]]
    /\ script = (config.hasRedis /\ config.scriptLoaded # {})
    /\ flushes = 0
    /\ req = [r \in Requests |-> [pc |-> "new", i |-> 1, t |-> 0, n |-> 0]]
    /\ hits = {}

Tick ==
    /\ now < MaxTime
    /\ now' = now + 1
    /\ zset' = [k \in AllKeys |-> IF until[k] <= now + 1 THEN {} ELSE zset[k]]
    /\ UNCHANGED <<config, until, lists, script, flushes, req, hits>>

\* A failover or SCRIPT FLUSH: the cached script is gone.
Flush ==
    /\ script
    /\ flushes < MaxFlushes
    /\ script' = FALSE
    /\ flushes' = flushes + 1
    /\ UNCHANGED <<config, now, zset, until, lists, req, hits>>

\* Mutant: one request more than the limit passes.
OverLimitLate(count, limit) == count > limit + 1

OverLimit(count, limit) == count > limit

\* checkRateLimit has its count; applyRateLimitCheck and check() go on.
Decide(r, count) ==
    LET over == OverLimit(count, Cur(r).limit)
        last == req[r].i = Len(Tiers(r))
    IN req' = [req EXCEPT ![r] =
                 IF over /\ ProcOf(r) \notin config.passive THEN [@ EXCEPT !.pc = "refused"]
                 ELSE IF last THEN [@ EXCEPT !.pc = "allowed"]
                 ELSE [@ EXCEPT !.pc = "new", !.i = req[r].i + 1]]

\* getInMemoryRequestCount with the time t, and what follows.
InMemory(r, t) ==
    LET p == ProcOf(r)
        k == Cur(r).key
        times == Pushed(lists[p][k], t - Cur(r).window, t)
    IN /\ lists' = [lists EXCEPT ![p][k] = times]
       /\ Decide(r, Len(times))

\* check() passes a request that is exempt.
Skip(r) ==
    /\ r \in Exempt
    /\ req[r].pc = "new"
    /\ req' = [req EXCEPT ![r].pc = "allowed"]
    /\ UNCHANGED <<config, now, zset, until, lists, script, flushes, hits>>

\* checkRateLimit for the next tier, up to its first await.
Enter(r) ==
    /\ r \notin Exempt
    /\ req[r].pc = "new"
    /\ hits' = hits \cup {<<r, req[r].i, now>>}
    /\ IF config.hasRedis
       THEN /\ req' = [req EXCEPT ![r].t = now,
                                  ![r].pc = IF ProcOf(r) \in config.scriptLoaded THEN "eval" ELSE "zadd"]
            /\ UNCHANGED lists
       ELSE InMemory(r, now)
    /\ UNCHANGED <<config, now, zset, until, script, flushes>>

\* Mutant: the start of the window is kept.
TrimLoose(z, windowStart) == {t \in z : t >= windowStart}

\* ZREMRANGEBYSCORE key 0 windowStart.
Trim(z, windowStart) == {t \in z : t > windowStart}

\* The Lua script, atomically.
Lua(r) ==
    LET k == Cur(r).key
        z == Trim(zset[k] \cup {req[r].t}, req[r].t - Cur(r).window)
    IN /\ zset' = [zset EXCEPT ![k] = z]
       /\ until' = [until EXCEPT ![k] = now + 2 * Cur(r).window]
       /\ Decide(r, Cardinality(z))

\* EVALSHA, the first or the retry, finds the script.
Eval(r) ==
    /\ req[r].pc \in {"eval", "retry"}
    /\ script
    /\ Lua(r)
    /\ UNCHANGED <<config, now, lists, script, flushes, hits>>

\* The first EVALSHA answers NOSCRIPT.
NoScript(r) ==
    /\ req[r].pc = "eval"
    /\ ~script
    /\ req' = [req EXCEPT ![r].pc = "reload"]
    /\ UNCHANGED <<config, now, zset, until, lists, script, flushes, hits>>

\* SCRIPT LOAD, then the event, then the retry is sent.
Reload(r) ==
    /\ req[r].pc = "reload"
    /\ script' = TRUE
    /\ req' = [req EXCEPT ![r].pc = "retry"]
    /\ UNCHANGED <<config, now, zset, until, lists, flushes, hits>>

\* Without a loaded script: ZADD, ZREMRANGEBYSCORE, ZCARD and EXPIRE, each
\* awaited.
Zadd(r) ==
    /\ req[r].pc = "zadd"
    /\ zset' = [zset EXCEPT ![Cur(r).key] = @ \cup {req[r].t}]
    /\ until' = [until EXCEPT ![Cur(r).key] = IF zset[Cur(r).key] = {} THEN MaxTime + 1 ELSE @]
    /\ req' = [req EXCEPT ![r].pc = "zrem"]
    /\ UNCHANGED <<config, now, lists, script, flushes, hits>>

Zrem(r) ==
    /\ req[r].pc = "zrem"
    /\ zset' = [zset EXCEPT ![Cur(r).key] = Trim(@, req[r].t - Cur(r).window)]
    /\ req' = [req EXCEPT ![r].pc = "zcard"]
    /\ UNCHANGED <<config, now, until, lists, script, flushes, hits>>

Zcard(r) ==
    /\ req[r].pc = "zcard"
    /\ req' = [req EXCEPT ![r].pc = "expire", ![r].n = Cardinality(zset[Cur(r).key])]
    /\ UNCHANGED <<config, now, zset, until, lists, script, flushes, hits>>

Expire(r) ==
    /\ req[r].pc = "expire"
    /\ until' = [until EXCEPT ![Cur(r).key] = now + 2 * Cur(r).window]
    /\ Decide(r, req[r].n)
    /\ UNCHANGED <<config, now, zset, lists, script, flushes, hits>>

\* A Redis operation throws, or the retry meets NOSCRIPT again: the request is
\* counted in memory, with the time it took before the await.
Fallback(r) ==
    /\ req[r].pc \in Waiting
    /\ config.redisMayFail \/ (req[r].pc = "retry" /\ ~script)
    /\ InMemory(r, req[r].t)
    /\ UNCHANGED <<config, now, zset, until, script, flushes, hits>>

Next ==
    \/ Tick
    \/ Flush
    \/ \E r \in Requests :
         \/ Skip(r) \/ Enter(r) \/ Eval(r) \/ NoScript(r) \/ Reload(r)
         \/ Zadd(r) \/ Zrem(r) \/ Zcard(r) \/ Expire(r) \/ Fallback(r)

Spec == Init /\ [][Next]_vars

-----------------------------------------------------------------------------
(* Properties.                                                             *)

\* The requests that took a time in (from, to] for a tier with this key.
Hitting(key, from, to) ==
    {q \in Requests : \E h \in hits : /\ h[1] = q /\ Tiers(q)[h[2]].key = key
                                      /\ from < h[3] /\ h[3] <= to}

\* Was request r refused with more requests made under its key, since its
\* window began, than the limit of its tier allows?
Justified(r) ==
    \E h \in hits :
        /\ h[1] = r /\ h[2] = req[r].i
        /\ Cardinality(Hitting(Cur(r).key, h[3] - Cur(r).window, now)) > Cur(r).limit

\* Do the tiers of every request count under keys of their own?
TiersApart ==
    \A r \in Requests : \A i, j \in DOMAIN Tiers(r) :
        Tiers(r)[i].key = Tiers(r)[j].key => i = j

\* Does Redis work, with a script that every process has loaded and that is flushed
\* once at most?
RedisSound == ~config.redisMayFail /\ config.scriptLoaded = Procs /\ flushes <= 1

\* A client that has made no more requests under a key than its limit allows is not
\* refused, even with concurrent single commands, failing operations and counts split
\* between Redis and the lists of several processes.  While Redis works and every
\* process has the script, or without Redis, the requests must even fall into the
\* window that ends with the refused one: those that have left it do not count, and
\* none counts twice, by the reload and retry after NOSCRIPT in particular.  (With
\* single commands a late ZADD may put an old time back between another request's
\* trim and count; after a second flush retries fail, and the lists that count then
\* hold times that requests took before they waited, out of order.)
RefusedOnlyOverLimit ==
    \A r \in Requests :
        req[r].pc = "refused" /\ TiersApart =>
            /\ Cardinality(Hitting(Cur(r).key, 0, now)) > Cur(r).limit
            /\ Cur(r).window > 0 /\ (config.hasRedis => RedisSound) => Justified(r)

\* Do tiers that count under one key have one limit and one window?  (A tier with a
\* shorter window forgets what a longer one under its key still has to count.)
OneLimitPerKey ==
    \A q, r \in Requests : \A i \in DOMAIN Tiers(q), j \in DOMAIN Tiers(r) :
        Tiers(q)[i].key = Tiers(r)[j].key => Tiers(q)[i] = Tiers(r)[j]

\* "Every IP is limited to 100 requests per 60-second sliding window": of the
\* requests that an active process without Redis gets in any window that ends
\* with an allowed one, at most the limit's number are allowed.
AllowedWithinLimit ==
    ~config.hasRedis =>
        \A h \in hits :
            LET r == h[1]
                tier == Tiers(r)[h[2]]
                inWindow == {q \in Hitting(tier.key, h[3] - tier.window, h[3]) :
                               ProcOf(q) = ProcOf(r)}
            IN req[r].pc = "allowed" /\ ProcOf(r) \notin config.passive /\ OneLimitPerKey
                 => Cardinality({q \in inWindow : req[q].pc = "allowed"}) <= tier.limit

\* What decorators/rate-limiting.md says of a route's limit: "requests --
\* Maximum number of requests allowed in the window".  In every configuration
\* of the tiers, with nothing failing, a request is refused only when that
\* number has been exceeded.
RefusedOnlyOverConfigured ==
    ~config.redisMayFail =>
        \A r \in Requests : req[r].pc = "refused" => Justified(r)
=============================================================================
