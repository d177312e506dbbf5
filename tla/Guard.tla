------------------------------- MODULE Guard -------------------------------
(***************************************************************************)
(* A request's way through the guard: the bypasses of the adapters, the 17 *)
(* checks in their order (middleware-support.ts), the counters of          *)
(* suspicious requests that they share and the automatic bans that these   *)
(* lead to (core/checks/helpers.ts).                                       *)
(*                                                                         *)
(* What a single check reads off a request is a "fault" of the request;    *)
(* whether the fault matters depends on the configuration, the route and   *)
(* what earlier checks noted on the request.  How a ban is stored is the   *)
(* subject of IpBan, how requests are counted that of RateLimit, what the  *)
(* loop does with errors and hooks that of CheckPipeline.                  *)
(***************************************************************************)
EXTENDS Naturals, Sequences, FiniteSets

CONSTANTS
    Ips,
    Requests,
    Inputs,      \* the requests that may arrive
    Configs,     \* the configurations to be considered
    Categories,  \* the categories of suspicious requests
    MaxTracked   \* MAX_TRACKED_SUSPICIOUS_IPS

\* initializeSecurityMiddleware: the checks in their order.
Checks == <<
    "route_config", "emergency_mode", "https_enforcement", "request_logging",
    "request_size_content", "required_headers", "authentication", "referrer",
    "custom_validators", "time_window", "cloud_ip_refresh", "ip_security",
    "cloud_provider", "user_agent", "rate_limit", "suspicious_activity",
    "custom_request">>

CheckNames == {Checks[i] : i \in DOMAIN Checks}

\* Checks whose answer is the application's, in passive mode too.
AppAuthored == {"custom_validators", "custom_request"}

\* Checks that read or write what requests share.
Stateful == {"ip_security", "user_agent", "rate_limit", "suspicious_activity"}

\* A route: is there a RouteConfig for it, what it asks for, its IP lists,
\* whether it restricts countries, enableSuspiciousDetection, bypassedChecks.
RouteConfig ==
    [present : BOOLEAN,
     rules : SUBSET {"https", "max_size", "content_type", "headers", "auth_header",
                     "auth", "verifier", "referrer", "validators", "time", "clouds",
                     "agents"},
     ipWhitelist : SUBSET Ips, ipBlacklist : SUBSET Ips, countries : BOOLEAN,
     detection : BOOLEAN,
     bypassed : SUBSET (CheckNames \cup {"ip", "ip_ban", "clouds", "penetration", "all"})]

\* What a rule may find wrong with a request.
Faults == {"unresolved", "plain_http", "max_size", "content_type", "headers",
           "credential", "verifier", "referrer", "validators", "time", "clouds",
           "agents", "limit", "custom", "country", "excluded_path"}

\* A request: who sends it, its route, its faults, what a scan finds in it
\* ("excluded": only in parameters that are excluded from detection) and the
\* categories of that.
Input ==
    [ip : Ips, route : RouteConfig, faults : SUBSET Faults,
     threat : {"none", "excluded", "found"}, categories : SUBSET Categories]

\* SecurityConfig, whose rule "verifier" stands for the global authVerifier;
\* threatBan[c] = 0 where threatBanConfig has no entry for c.
IsConfig(cf) ==
    /\ {cf.passiveMode, cf.failSecure, cf.redisFailOpen, cf.redisMayFail, cf.strict,
        cf.emergency, cf.countries, cf.detection, cf.enableIpBanning,
        cf.rateLimitAutoBan} \subseteq BOOLEAN
    /\ cf.rules \subseteq {"https", "clouds", "agents", "limit", "custom", "verifier"}
    /\ cf.whitelist \cup cf.blacklist \cup cf.exemptIps \cup cf.emergencyWhitelist \subseteq Ips
    /\ cf.autoBanThreshold \in Nat \ {0}
    /\ cf.threatBan \in [Categories -> Nat]

ASSUME GuardAssumption ==
    /\ Inputs \subseteq Input
    /\ \A cf \in Configs : IsConfig(cf)
    /\ {"rate_limit", "uncategorized"} \subseteq Categories /\ IsFiniteSet(Categories)
    /\ MaxTracked \in Nat \ {0}

VARIABLES
    config,
    counts,   \* suspiciousRequestCounts, zero for an IP that is not tracked
    tracked,  \* its keys in their order
    banned,   \* the IPs that the ban manager of this process holds banned
    hits,     \* history: the violations that were counted for an IP, ever
    req       \* for each request where it is, its input, the flags it carries,
              \* the checks skipped for it, and whether its IP was free since it came

vars == <<config, counts, tracked, banned, hits, req>>

Zero == [c \in Categories |-> 0]

Idle == [pc |-> "new", i |-> 1, q |-> <<>>, isWhitelisted |-> FALSE,
         isExempt |-> FALSE, skipped |-> {}, free |-> FALSE]

Init ==
    /\ config \in Configs
    /\ counts = [ip \in Ips |-> Zero]
    /\ tracked = <<>>
    /\ banned = {}
    /\ hits = [ip \in Ips |-> Zero]
    /\ req = [r \in Requests |-> Idle]

-----------------------------------------------------------------------------
(* What a check makes of a request.                                        *)

\* shouldBypassCheck.
Bypasses(q, name) == q.route.present /\ q.route.bypassed \cap {name, "all"} # {}

\* One operator per check: does the request break a rule that is in force?
RouteConfigCheck(q) == config.strict /\ "unresolved" \in q.faults

EmergencyMode(q) == config.emergency /\ q.ip \notin config.emergencyWhitelist

\* A route's configuration stands in for the global one.
HttpsEnforcement(q) ==
    /\ "https" \in (IF q.route.present THEN q.route.rules ELSE config.rules)
    /\ "plain_http" \in q.faults

Breaks(q, rule) == rule \in q.route.rules /\ rule \in q.faults

RequestSizeContent(q) == Breaks(q, "max_size") \/ Breaks(q, "content_type")

RequiredHeaders(q) == Breaks(q, "headers")

\* A route that asks for the header only asks for nothing else; one that asks
\* for authentication refuses where no verifier is configured.
Authentication(q) ==
    IF "auth_header" \in q.route.rules THEN "credential" \in q.faults
    ELSE /\ "auth" \in q.route.rules
         /\ \/ q.faults \cap {"credential", "verifier"} # {}
            \/ "verifier" \notin q.route.rules \cup config.rules

Referrer(q) == Breaks(q, "referrer")

CustomValidators(q) == Breaks(q, "validators")

TimeWindow(q) == Breaks(q, "time")

CloudProvider(q) ==
    /\ ~Bypasses(q, "clouds")
    /\ "clouds" \in q.route.rules \cup config.rules
    /\ "clouds" \in q.faults

BlockedUserAgent(q) ==
    "agents" \in q.route.rules \cup config.rules /\ "agents" \in q.faults

OverRateLimit(q) == "limit" \in config.rules /\ "limit" \in q.faults

CustomRequest(q) == "custom" \in config.rules /\ "custom" \in q.faults

\* request_logging and cloud_ip_refresh refuse nothing; ip_security and
\* suspicious_activity have actions of their own.
Violates(q, check) ==
    CASE check = "route_config" -> RouteConfigCheck(q)
      [] check = "emergency_mode" -> EmergencyMode(q)
      [] check = "https_enforcement" -> HttpsEnforcement(q)
      [] check = "request_size_content" -> RequestSizeContent(q)
      [] check = "required_headers" -> RequiredHeaders(q)
      [] check = "authentication" -> Authentication(q)
      [] check = "referrer" -> Referrer(q)
      [] check = "custom_validators" -> CustomValidators(q)
      [] check = "time_window" -> TimeWindow(q)
      [] check = "cloud_provider" -> CloudProvider(q)
      [] check = "user_agent" -> BlockedUserAgent(q)
      [] check = "rate_limit" -> OverRateLimit(q)
      [] check = "custom_request" -> CustomRequest(q)
      [] OTHER -> FALSE

\* Whitelist and exempt_ips matches skip these checks.
LetOff(r, check) ==
    /\ check \in {"cloud_provider", "user_agent", "rate_limit"}
    /\ req[r].isWhitelisted \/ req[r].isExempt

\* A violation that ends the request; in passive mode it is only logged.
Refuses(r, check) ==
    /\ Violates(req[r].q, check)
    /\ ~LetOff(r, check)
    /\ config.passiveMode => check \in AppAuthored

\* A route's ipWhitelist takes over the global lists.
OverridesLists(q) == q.route.ipWhitelist # {}

\* checkIpAccessDetail.
AccessAllowed(q) ==
    LET listed == config.whitelist # {} /\ ~OverridesLists(q)
    IN /\ ~OverridesLists(q) =>
            IF config.whitelist # {} THEN q.ip \in config.whitelist
                                     ELSE q.ip \notin config.blacklist
       /\ config.countries /\ ~listed => "country" \notin q.faults

\* checkRouteIpAccess.
RouteAllows(q) ==
    q.route.present =>
        /\ q.ip \notin q.route.ipBlacklist
        /\ IF q.route.ipWhitelist # {} THEN q.ip \in q.route.ipWhitelist
           ELSE q.route.countries => "country" \notin q.faults

\* detectPenetrationPatterns: does the request get scanned?
Scanned(q) ==
    /\ IF q.route.present THEN q.route.detection ELSE config.detection
    /\ ~Bypasses(q, "penetration")

-----------------------------------------------------------------------------
(* The counters and the bans.                                              *)

Untracked(ip) == \A i \in DOMAIN tracked : tracked[i] # ip

\* A newcomer to a full table takes the place of the IP seen least recently.
Evicts(ip) == Len(tracked) >= MaxTracked /\ Untracked(ip)

\* An IP moves to the end of the keys (delete and set).
Refresh(ip) ==
    \/ \E i \in DOMAIN tracked :
          /\ tracked[i] = ip
          /\ tracked' = Append(SubSeq(tracked, 1, i - 1) \o SubSeq(tracked, i + 1, Len(tracked)), ip)
    \/ /\ Untracked(ip)
       /\ tracked' = Append(IF Evicts(ip) THEN Tail(tracked) ELSE tracked, ip)

\* The counts with one more for each of the categories.
Plus(ipCounts, categories) ==
    [c \in Categories |-> ipCounts[c] + (IF c \in categories THEN 1 ELSE 0)]

\* incrementSuspiciousCounts.
IncrementSuspiciousCounts(ip, categories) ==
    /\ counts' = [i \in Ips |->
          IF i = ip THEN Plus(counts[ip], categories)
          ELSE IF Evicts(ip) /\ i = Head(tracked) THEN Zero ELSE counts[i]]
    /\ Refresh(ip)
    /\ hits' = [hits EXCEPT ![ip] = Plus(@, categories)]

\* totalSuspiciousCount: one for each time a category was counted.
Total(ipCounts) == Cardinality(UNION {{c} \X (1..ipCounts[c]) : c \in Categories})

\* Mutant: one violation too early.
ReachesThresholdEarly(ipCounts, categories) ==
    \/ \E c \in categories : config.threatBan[c] > 0 /\ ipCounts[c] >= config.threatBan[c]
    \/ Total(ipCounts) + 1 >= config.autoBanThreshold

\* resolveThresholdBan: the thresholds of the request's categories, then the
\* flat one over all of them.
ReachesThreshold(ipCounts, categories) ==
    \/ \E c \in categories : config.threatBan[c] > 0 /\ ipCounts[c] >= config.threatBan[c]
    \/ Total(ipCounts) >= config.autoBanThreshold

\* tryThresholdBan up to the point where banIp has the ban in its own map:
\* nothing comes between that and the increment before it.
CountAndBan(ip, counted, categories) ==
    /\ IncrementSuspiciousCounts(ip, counted)
    /\ banned' = IF config.enableIpBanning /\ ReachesThreshold(counts'[ip], categories)
                 THEN banned \cup {ip} ELSE banned

\* A ban that was put in the map is then written to Redis, which may fail.
BanThrows(ip, categories) ==
    /\ config.redisMayFail /\ config.enableIpBanning
    /\ ReachesThreshold(counts'[ip], categories)

Categorised(categories) == IF categories = {} THEN {"uncategorized"} ELSE categories

-----------------------------------------------------------------------------
(* The way of a request.                                                   *)

At(r, check) == req[r].pc = "run" /\ Checks[req[r].i] = check

End(r, pc) == req' = [req EXCEPT ![r].pc = pc]

\* The check has nothing to say.
GoOn(r) == req' = [req EXCEPT ![r].i = @ + 1]

\* handleCheckError for a GuardRedisError: the check is skipped, or the request
\* is answered with 500.
Fail(r) ==
    IF config.redisFailOpen \/ ~config.failSecure
    THEN req' = [req EXCEPT ![r].pc = "run", ![r].i = @ + 1,
                            ![r].skipped = @ \cup {Checks[req[r].i]}]
    ELSE End(r, "failed")

\* handlePassthrough and handleSecurityBypass: an excluded path and a route
\* that bypasses all checks are answered before the pipeline.
Arrive(r, q) ==
    /\ req[r].pc = "new"
    /\ req' = [req EXCEPT ![r] =
         [Idle EXCEPT !.pc = IF \/ "excluded_path" \in q.faults
                                \/ Bypasses(q, "all") /\ ~config.passiveMode
                             THEN "bypassed" ELSE "run",
                      !.q = q, !.free = q.ip \notin banned]]
    /\ UNCHANGED <<config, counts, tracked, banned, hits>>

\* The checks up to the next stateful one look at this request only: they run
\* until one refuses it or none is left.
Advance(r) ==
    /\ req[r].pc = "run"
    /\ Checks[req[r].i] \notin Stateful
    /\ LET i == req[r].i
           Halts(k) == Checks[k] \in Stateful \/ Refuses(r, Checks[k])
       IN \/ /\ \A k \in i..Len(Checks) : ~Halts(k)
             /\ End(r, "allowed")
          \/ \E k \in i..Len(Checks) :
                /\ Halts(k) /\ \A j \in i..(k - 1) : ~Halts(j)
                /\ req' = [req EXCEPT
                     ![r].i = k,
                     ![r].pc = IF Checks[k] \in Stateful THEN "run" ELSE "blocked"]
    /\ UNCHANGED <<config, counts, tracked, banned, hits>>

\* A route may bypass the ban check, under a name of its own.
AsksForBan(q) == ~Bypasses(q, "ip_ban")

\* ip_security, checkBannedIp: an IP that this process holds banned is refused;
\* for another one Redis is asked, which may fail.
BanCheck(r) ==
    /\ At(r, "ip_security")
    /\ LET q == req[r].q
           held == AsksForBan(q) /\ q.ip \in banned
       IN \/ /\ held /\ ~config.passiveMode
             /\ End(r, "blocked")
          \/ /\ ~held \/ config.passiveMode
             /\ End(r, "access")
          \/ /\ AsksForBan(q) /\ ~held /\ config.redisMayFail
             /\ Fail(r)
    /\ UNCHANGED <<config, counts, tracked, banned, hits>>

\* ip_security after the ban check: the flags that later checks go by, then the
\* restrictions of the route and the global ones; a denial is escalated.
Access(r) ==
    /\ req[r].pc = "access"
    /\ LET q == req[r].q
           noted == AccessAllowed(q) /\ ~OverridesLists(q)
           denied == ~RouteAllows(q) \/ ~AccessAllowed(q)
       IN IF Bypasses(q, "ip")
          THEN req' = [req EXCEPT ![r].pc = "run", ![r].i = @ + 1]
          ELSE req' = [req EXCEPT
                 ![r].isWhitelisted = noted /\ config.whitelist # {},
                 ![r].isExempt = noted /\ q.ip \in config.exemptIps,
                 ![r].pc = IF denied /\ ~config.passiveMode THEN "escalate" ELSE "run",
                 ![r].i = IF denied /\ ~config.passiveMode THEN @ ELSE @ + 1]
    /\ UNCHANGED <<config, counts, tracked, banned, hits>>

\* The escalation scans with the default manager: parameters that the
\* configuration or the route excludes are scanned as well.
SeenByEscalation(q) == Scanned(q) /\ q.threat # "none"

\* escalateIdentityViolation, after its scan: the threat in a request that is
\* denied for its IP or its user agent counts towards a ban.  Its errors are
\* swallowed, so the request is refused in any case.
Escalate(r) ==
    /\ req[r].pc = "escalate"
    /\ LET q == req[r].q
       IN IF ~req[r].isWhitelisted /\ SeenByEscalation(q)
          THEN CountAndBan(q.ip, Categorised(q.categories), Categorised(q.categories))
          ELSE UNCHANGED <<counts, tracked, banned, hits>>
    /\ End(r, "blocked")
    /\ UNCHANGED config

\* user_agent: a denial is escalated.
UserAgent(r) ==
    /\ At(r, "user_agent")
    /\ IF Refuses(r, "user_agent") THEN End(r, "escalate") ELSE GoOn(r)
    /\ UNCHANGED <<config, counts, tracked, banned, hits>>

\* rate_limit: with enableRateLimitAutoBan a violation counts towards a ban,
\* whose error is the check's error.
RateLimit(r) ==
    /\ At(r, "rate_limit")
    /\ LET ip == req[r].q.ip
       IN \/ /\ ~Refuses(r, "rate_limit")
             /\ GoOn(r)
             /\ UNCHANGED <<counts, tracked, banned, hits>>
          \/ /\ Refuses(r, "rate_limit") /\ ~config.rateLimitAutoBan
             /\ End(r, "blocked")
             /\ UNCHANGED <<counts, tracked, banned, hits>>
          \/ /\ Refuses(r, "rate_limit") /\ config.rateLimitAutoBan
             /\ CountAndBan(ip, {"rate_limit"}, {"rate_limit"})
             /\ \/ End(r, "blocked")
                \/ BanThrows(ip, {"rate_limit"}) /\ Fail(r)
    /\ UNCHANGED config

\* Mutant: exempt IPs are not scanned either.
ScannedByCheckUnlessExempt(r) ==
    /\ ~req[r].isWhitelisted /\ ~req[r].isExempt
    /\ config.detection /\ Scanned(req[r].q) /\ req[r].q.threat = "found"

\* suspicious_activity finds a threat: for exempt IPs as well.
ScannedByCheck(r) ==
    /\ ~req[r].isWhitelisted
    /\ config.detection /\ Scanned(req[r].q) /\ req[r].q.threat = "found"

\* suspicious_activity, after its scan: a threat is counted in both modes; in
\* active mode it may lead to a ban, whose error is the check's error.
SuspiciousActivity(r) ==
    /\ At(r, "suspicious_activity")
    /\ LET q == req[r].q
       IN \/ /\ ~ScannedByCheck(r)
             /\ GoOn(r)
             /\ UNCHANGED <<counts, tracked, banned, hits>>
          \/ /\ ScannedByCheck(r) /\ config.passiveMode
             /\ IncrementSuspiciousCounts(q.ip, Categorised(q.categories))
             /\ GoOn(r)
             /\ UNCHANGED banned
          \/ /\ ScannedByCheck(r) /\ ~config.passiveMode
             /\ CountAndBan(q.ip, Categorised(q.categories), q.categories)
             /\ \/ End(r, "blocked")
                \/ BanThrows(q.ip, q.categories) /\ Fail(r)
    /\ UNCHANGED config

\* A ban runs out, is lifted or is evicted (IpBan).
BanEnds(ip) ==
    /\ ip \in banned
    /\ banned' = banned \ {ip}
    /\ req' = [r \in Requests |->
         IF req[r].pc # "new" /\ req[r].q.ip = ip
         THEN [req[r] EXCEPT !.free = TRUE] ELSE req[r]]
    /\ UNCHANGED <<config, counts, tracked, hits>>

Next ==
    \/ \E r \in Requests :
         \/ \E q \in Inputs : Arrive(r, q)
         \/ Advance(r) \/ BanCheck(r) \/ Access(r) \/ Escalate(r)
         \/ UserAgent(r) \/ RateLimit(r) \/ SuspiciousActivity(r)
    \/ \E ip \in Ips : BanEnds(ip)

Spec == Init /\ [][Next]_vars

-----------------------------------------------------------------------------
(* Properties.                                                             *)

Ended == {"bypassed", "allowed", "blocked", "failed"}

\* By the lists alone, without regard to what a request noted on its way.
ByList(q, list) ==
    /\ q.ip \in list
    /\ AccessAllowed(q) /\ ~OverridesLists(q) /\ ~Bypasses(q, "ip")

\* An active guard lets a request through only if it keeps every rule that is in
\* force for it: exemption waives the cloud, user agent and rate limit rules and
\* the whitelist detection as well, and neither waives anything else.  (For
\* requests of which no check was skipped for an error.)
AdmittedKeepsRules ==
    \A r \in Requests :
        LET q == req[r].q
            white == ByList(q, config.whitelist)
            exempt == ByList(q, config.exemptIps)
            waived == IF white \/ exempt THEN {"cloud_provider", "user_agent", "rate_limit"}
                      ELSE {}
        IN req[r].pc = "allowed" /\ ~config.passiveMode /\ req[r].skipped = {} =>
             /\ \A check \in CheckNames \ waived : ~Violates(q, check)
             /\ ~Bypasses(q, "ip") => AccessAllowed(q) /\ RouteAllows(q)
             /\ config.detection /\ Scanned(q) /\ ~white => q.threat # "found"

\* An IP that is banned from a request's arrival to its end gets nothing through
\* an active guard, on whatever route does not bypass the ban check.
BannedStaysOut ==
    \A r \in Requests :
        /\ req[r].pc = "allowed" /\ ~config.passiveMode
        /\ "ip_security" \notin req[r].skipped /\ ~Bypasses(req[r].q, "ip_ban")
        => req[r].free

\* Nobody is banned for others: an IP is banned only after as many violations of
\* its own as a threshold asks for, evictions from the table notwithstanding.
BanHasCause ==
    \A ip \in banned :
        \/ Total(hits[ip]) >= config.autoBanThreshold
        \/ \E c \in Categories : config.threatBan[c] > 0 /\ hits[ip][c] >= config.threatBan[c]

\* Where every error blocks, an IP on the whitelist gets banned only by requests
\* to routes that override the lists or bypass "ip": its other requests are
\* neither counted nor escalated, also when a route denies them.
WhitelistedNotBanned ==
    config.failSecure /\ ~config.redisFailOpen =>
        \A ip \in banned \cap config.whitelist :
            \E r \in Requests :
                /\ req[r].pc # "new" /\ req[r].q.ip = ip
                /\ OverridesLists(req[r].q) \/ Bypasses(req[r].q, "ip")

\* In passive mode nobody is banned, and the fifteen checks of the engine itself answer
\* no request: they log and pass.  The two whose answer is the application's return it in
\* passive mode as well (custom-request.ts:27, custom-validators.ts:15); that this is not
\* what the documents say is PassiveNeverBlocks.
EngineOnlyLogs ==
    config.passiveMode =>
        /\ banned = {}
        /\ \A r \in Requests :
             req[r].pc = "blocked" => Checks[req[r].i] \in AppAuthored

\* "When `passiveMode: true`, checks log violations but return `null` instead of blocking
\* responses" (security-pipeline.md:123): a refusal by custom_request is announced as
\* logged_only in passive mode (custom-request.ts:20) and returned all the same.
PassiveNeverBlocks ==
    config.passiveMode => \A r \in Requests : req[r].pc # "blocked"

\* What an active guard lets through keeps the rules, and comes from no banned IP.
KeepsOut == AdmittedKeepsRules /\ BannedStaysOut

\* Bans have a cause of their own, spare the whitelist and are not for passive mode, where
\* the engine's own checks refuse nobody; the table of suspicious IPs that they come from
\* keeps its limit and its counts.
BansAreEarned ==
    /\ BanHasCause /\ WhitelistedNotBanned /\ EngineOnlyLogs
    /\ Len(tracked) <= MaxTracked
    /\ \A ip \in Ips : counts[ip] # Zero <=> \E i \in DOMAIN tracked : tracked[i] = ip
=============================================================================
