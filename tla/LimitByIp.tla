----------------------------- MODULE LimitByIp ------------------------------
(***************************************************************************)
(* checkRateLimitByIp of handlers/rate-limit-by-ip.ts: count a hit of a    *)
(* raw address outside the HTTP pipeline and answer whether it is allowed. *)
(*                                                                         *)
(* With Redis a call is four commands on a sorted set, each awaited, whose *)
(* members are the instants of the calls; without it, or after a failure   *)
(* under redisFailOpen, it is one step on a map with an LRU cap.  A        *)
(* refused call counts towards an automatic ban.                           *)
(***************************************************************************)
EXTENDS SlidingWindow, SequencesExt, FiniteSets

CONSTANTS
    Hits,            \* calls
    HitIp, HitPath,  \* their arguments
    ValidIps,        \* the addresses that parse
    BadPaths,        \* the endpoint paths with a ':'
    LimitConfigs,    \* the configurations considered
    HitLimit,        \* rateLimit
    HitWindow,       \* rateLimitWindow
    BanThreshold,    \* autoBanThreshold, threatBanConfig.rate_limit.threshold if less
    MaxWindows,      \* MAX_TRACKED_RATE_LIMIT_KEYS
    MaxLimitFaults,  \* bound: failing Redis commands
    MaxLimitClock    \* bound: the clock stops here

LimitConfig == [enabled : BOOLEAN, redis : BOOLEAN, failOpen : BOOLEAN,
                autoBan : BOOLEAN, ipBanning : BOOLEAN, passive : BOOLEAN]

ASSUME LimitByIpAssumption ==
    /\ IsFiniteSet(Hits)
    /\ LimitConfigs \subseteq LimitConfig
    /\ HitLimit \in Nat \ {0} /\ HitWindow \in Nat \ {0} /\ MaxWindows \in Nat \ {0}
    /\ BanThreshold \in Nat \ {0}

VARIABLES
    limitConfig, limitClock, limitFaults,
    hit,          \* of each call: where it is, when it began, what it counted
    instants,     \* the sorted sets: per key the instants that are members
    keyLife,      \* when each key expires; 0 while it has no time to live
    windows,      \* byIpRequestTimestamps: the timestamps of each key, <<>> if absent,
    windowOrder,  \* and the keys present, oldest first
    autobans,     \* byIpAutobanCounts: the count of each address, 0 if absent,
    autobanOrder, \* and the addresses present, oldest first
    announced,    \* history: the addresses that were banned automatically
    recorded,     \* history: per key, when which call was recorded
    lapsed,       \* history: the keys whose time to live ran out
    forgotten     \* history: keys that left their map for another one

windowVars == <<windows, windowOrder>>
autobanVars == <<autobans, autobanOrder>>
limitVars == <<limitConfig, limitClock, limitFaults, hit, instants, keyLife, windowVars,
               autobanVars, announced, recorded, lapsed, forgotten>>

LimitKey(h) == <<HitIp[h], HitPath[h]>>
HitKeys == {LimitKey(h) : h \in Hits}
HitIps == {HitIp[h] : h \in Hits}

LimitInit ==
    /\ limitConfig \in LimitConfigs
    /\ limitClock = 1 /\ limitFaults = 0
    /\ hit = [h \in Hits |-> [pc |-> "new", at |-> 0, count |-> 0]]
    /\ instants = [k \in HitKeys |-> {}]
    /\ keyLife = [k \in HitKeys |-> 0]
    /\ windows = [k \in HitKeys |-> <<>>] /\ windowOrder = <<>>
    /\ autobans = [ip \in HitIps |-> 0] /\ autobanOrder = <<>>
    /\ announced = {}
    /\ recorded = [k \in HitKeys |-> {}]
    /\ lapsed = {} /\ forgotten = {}

Step(h, pc) == hit' = [hit EXCEPT ![h].pc = pc]
Record(h) == recorded' = [recorded EXCEPT ![LimitKey(h)] = @ \cup {<<h, limitClock>>}]

\* lruPopOrCreate: a key that is not there finds the map full, and the oldest one goes.
Dropped(order, key) ==
    IF key \notin ToSet(order) /\ Len(order) >= MaxWindows THEN {Head(order)} ELSE {}

\* The pop and the insertion that follows: the key moves to the end.
LruOrder(order, key) ==
    Append(IF Dropped(order, key) = {} THEN Remove(order, key) ELSE Tail(order), key)

Lru(map, order, key, value, absent) ==
    [k \in DOMAIN map |-> IF k = key THEN value
                          ELSE IF k \in Dropped(order, key) THEN absent ELSE map[k]]

-----------------------------------------------------------------------------
\* The arguments are validated before anything is counted.
Valid(h) == HitIp[h] \in ValidIps /\ HitPath[h] \notin BadPaths

Call(h) ==
    /\ hit[h].pc = "new"
    /\ hit' = [hit EXCEPT ![h].at = limitClock,
                 ![h].pc = CASE ~Valid(h) -> "threw"
                             [] Valid(h) /\ ~limitConfig.enabled -> "allowed"
                             [] Valid(h) /\ limitConfig.enabled ->
                                  IF limitConfig.redis THEN "add" ELSE "memory"]
    /\ UNCHANGED <<limitConfig, limitClock, limitFaults, instants, keyLife, windowVars,
                   autobanVars, announced, recorded, lapsed, forgotten>>

\* ZADD: the instant at which the call began is both score and member.
ZAdd(h) ==
    /\ hit[h].pc = "add" /\ Step(h, "trim")
    /\ instants' = [instants EXCEPT ![LimitKey(h)] = @ \cup {hit[h].at}]
    /\ Record(h)
    /\ UNCHANGED <<limitConfig, limitClock, limitFaults, keyLife, windowVars, autobanVars,
                   announced, lapsed, forgotten>>

\* ZREMRANGEBYSCORE 0 windowStart.
OutOfWindow(t, at) == t + HitWindow <= at

ZTrim(h) ==
    /\ hit[h].pc = "trim" /\ Step(h, "card")
    /\ instants' = [instants EXCEPT ![LimitKey(h)] = {t \in @ : ~OutOfWindow(t, hit[h].at)}]
    /\ UNCHANGED <<limitConfig, limitClock, limitFaults, keyLife, windowVars, autobanVars,
                   announced, recorded, lapsed, forgotten>>

ZCard(h) ==
    /\ hit[h].pc = "card"
    /\ hit' = [hit EXCEPT ![h].pc = "expire", ![h].count = Cardinality(instants[LimitKey(h)])]
    /\ UNCHANGED <<limitConfig, limitClock, limitFaults, instants, keyLife, windowVars,
                   autobanVars, announced, recorded, lapsed, forgotten>>

\* The Redis path counts the call itself and compares with <=.
WithinLimit(count) == count <= HitLimit

HitVerdict(h, allowed) ==
    hit' = [hit EXCEPT ![h].pc = IF allowed THEN "allowed" ELSE "refused", ![h].count = 0]

\* EXPIRE, and the verdict.
ExpireKey(h) ==
    /\ hit[h].pc = "expire" /\ HitVerdict(h, WithinLimit(hit[h].count))
    /\ keyLife' = [keyLife EXCEPT ![LimitKey(h)] = limitClock + 2 * HitWindow]
    /\ UNCHANGED <<limitConfig, limitClock, limitFaults, instants, windowVars, autobanVars,
                   announced, recorded, lapsed, forgotten>>

\* resolveRedisFailure: on to the in-memory window, or a GuardRedisError.
RedisFails(h) ==
    /\ hit[h].pc \in {"add", "trim", "card", "expire"} /\ limitFaults < MaxLimitFaults
    /\ Step(h, IF limitConfig.failOpen THEN "memory" ELSE "threw")
    /\ limitFaults' = limitFaults + 1
    /\ UNCHANGED <<limitConfig, limitClock, instants, keyLife, windowVars, autobanVars,
                   announced, recorded, lapsed, forgotten>>

\* inMemoryRequestCountByIp: the calls before this one are counted, with <.
CountInMemory(h) ==
    LET k == LimitKey(h)
        times == Pushed(windows[k], hit[h].at - HitWindow, hit[h].at)
        before == Len(times) - 1
    IN /\ hit[h].pc = "memory" /\ HitVerdict(h, before < HitLimit)
       /\ windows' = Lru(windows, windowOrder, k, times, <<>>)
       /\ windowOrder' = LruOrder(windowOrder, k)
       /\ Record(h)
       /\ forgotten' = forgotten \cup Dropped(windowOrder, k)
       /\ UNCHANGED <<limitConfig, limitClock, limitFaults, instants, keyLife, autobanVars,
                      announced, lapsed>>

\* Mutant: passive mode feeds the automatic ban.
FeedsAutoBanPassive == limitConfig.autoBan /\ limitConfig.ipBanning

FeedsAutoBan == limitConfig.autoBan /\ limitConfig.ipBanning /\ ~limitConfig.passive

\* feedRateLimitAutoban: isIpBanned asks an IPBanManager made for this call, which
\* knows no ban, and the ban that resolveThresholdBan sets is known to it alone.
FeedAutoBan(h) ==
    LET ip == HitIp[h]
        count == autobans[ip] + 1
    IN /\ hit[h].pc = "refused" /\ Step(h, "told")
       /\ IF FeedsAutoBan
          THEN /\ autobans' = Lru(autobans, autobanOrder, ip, count, 0)
               /\ autobanOrder' = LruOrder(autobanOrder, ip)
               /\ announced' = IF count >= BanThreshold
                               THEN announced \cup {ip} ELSE announced
          ELSE UNCHANGED <<autobanVars, announced>>
       /\ UNCHANGED <<limitConfig, limitClock, limitFaults, instants, keyLife, windowVars,
                      recorded, lapsed, forgotten>>

\* Time passes; keys whose time to live is over are gone.
LimitTick ==
    LET Over(k) == keyLife[k] # 0 /\ keyLife[k] <= limitClock + 1 IN
    /\ limitClock < MaxLimitClock /\ limitClock' = limitClock + 1
    /\ instants' = [k \in HitKeys |-> IF Over(k) THEN {} ELSE instants[k]]
    /\ keyLife' = [k \in HitKeys |-> IF Over(k) THEN 0 ELSE keyLife[k]]
    /\ lapsed' = lapsed \cup {k \in HitKeys : Over(k)}
    /\ UNCHANGED <<limitConfig, limitFaults, hit, windowVars, autobanVars, announced, recorded,
                   forgotten>>

LimitNext ==
    \/ \E h \in Hits : Call(h)
    \/ \E h \in Hits : ZAdd(h)
    \/ \E h \in Hits : ZTrim(h)
    \/ \E h \in Hits : ZCard(h)
    \/ \E h \in Hits : ExpireKey(h)
    \/ \E h \in Hits : RedisFails(h)
    \/ \E h \in Hits : CountInMemory(h)
    \/ \E h \in Hits : FeedAutoBan(h)
    \/ LimitTick

LimitSpec == LimitInit /\ [][LimitNext]_limitVars

-----------------------------------------------------------------------------
Refused(h) == hit[h].pc \in {"refused", "told"}

\* The other calls of a call's key that were recorded after its window began.
Company(h) ==
    {g \in Hits \ {h} : \E r \in recorded[LimitKey(h)] : r[1] = g /\ r[2] + HitWindow > hit[h].at}

\* Nobody is refused for hits that had left the window: a call is refused only when
\* at least HitLimit other calls of its key were recorded after its window began.
RefusedHadCompany == \A h \in Hits : Refused(h) => Cardinality(Company(h)) >= HitLimit

\* What bounds the allowed calls is the number of distinct instants, since the
\* instant is the member: while no key expires, no entry is dropped and Redis does
\* not fail, calls allowed within one window began at HitLimit instants at most.
AllowedInstantsBounded ==
    \A first \in {h \in Hits : hit[h].pc = "allowed"} :
        LET k == LimitKey(first)
            allowed == {h \in Hits : /\ LimitKey(h) = k /\ hit[h].pc = "allowed"
                                     /\ hit[h].at >= hit[first].at}
        IN (/\ limitConfig.enabled /\ limitFaults = 0 /\ k \notin lapsed \cup forgotten
            /\ limitClock < hit[first].at + HitWindow)
           => IF limitConfig.redis THEN Cardinality({hit[h].at : h \in allowed}) <= HitLimit
              ELSE Cardinality(allowed) <= HitLimit

\* The automatic ban counts refusals of active mode and nothing else, and bans no
\* address with fewer than its threshold.
AutoBanCountsRefusals ==
    /\ \A ip \in announced : Cardinality({h \in Hits : HitIp[h] = ip /\ Refused(h)}) >= BanThreshold
    /\ \A ip \in HitIps :
          /\ autobans[ip] <= Cardinality({h \in Hits : HitIp[h] = ip /\ Refused(h)})
          /\ autobans[ip] > 0 => ~limitConfig.passive

\* Refusals have a cause in the window, allowed calls keep the limit per instant, and
\* refusals are what the automatic ban counts.
LimitIsEarnedAndKept == RefusedHadCompany /\ AllowedInstantsBounded /\ AutoBanCountsRefusals
=============================================================================
