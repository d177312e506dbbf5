------------------------------ MODULE MCGuard ------------------------------
(* A small instance of Guard: three requests of two IPs, of which the table *)
(* of suspicious IPs holds one.                                             *)
EXTENDS Guard, TLC

CONSTANTS a, b, r1, r2, r3

Symmetry == Permutations(Requests)

MCCategories == {"sqli", "rate_limit", "uncategorized"}

Plain == [present |-> FALSE, rules |-> {}, ipWhitelist |-> {}, ipBlacklist |-> {},
          countries |-> FALSE, detection |-> FALSE, bypassed |-> {}]

Routed == [Plain EXCEPT !.present = TRUE, !.detection = TRUE]

Clean == [ip |-> a, route |-> Plain, faults |-> {}, threat |-> "none", categories |-> {}]

\* Requests that one of the checks before ip_security is about.
FrontInputs ==
    {[Clean EXCEPT !.faults = {fault}] :
        fault \in {"unresolved", "plain_http", "excluded_path"}}
    \cup {[Clean EXCEPT !.faults = {"verifier"}, !.route = [Routed EXCEPT !.rules = {"auth"}]],
          [Clean EXCEPT !.faults = {"validators"}, !.route = [Routed EXCEPT !.rules = {"validators"}]],
          [Clean EXCEPT !.faults = Faults \ {"validators", "excluded_path"}, !.threat = "found",
                        !.route = [Routed EXCEPT !.rules = {"headers", "referrer", "time"}]]}

\* Requests that carry a threat, to several kinds of route.
Threats ==
    {[Clean EXCEPT !.ip = ip, !.threat = "found", !.categories = {"sqli"}] : ip \in {a, b}}
    \cup {[Clean EXCEPT !.threat = "found", !.route = route] :
            route \in {[Routed EXCEPT !.bypassed = {"ip"}],
                       [Routed EXCEPT !.ipBlacklist = {a}],
                       [Routed EXCEPT !.ipWhitelist = {a}]}}
    \cup {[Clean EXCEPT !.threat = "excluded", !.faults = {"agents"}]}

\* Requests that break the limits, or come from where they should not.
Others ==
    {[Clean EXCEPT !.faults = {fault}] : fault \in {"limit", "country"}}
    \cup {[Clean EXCEPT !.ip = b, !.faults = {fault}] :
            fault \in {"clouds", "custom"}}
    \cup {[Clean EXCEPT !.route = [Routed EXCEPT !.bypassed = {name}], !.faults = {"limit"}] :
            name \in {"all", "ip_ban", "rate_limit"}}
    \cup {Clean}

MCInputs == FrontInputs \cup Threats \cup Others

Active == [passiveMode |-> FALSE, failSecure |-> TRUE, redisFailOpen |-> FALSE,
           redisMayFail |-> FALSE, strict |-> TRUE, emergency |-> FALSE,
           rules |-> {"https", "clouds", "agents", "limit", "custom", "verifier"},
           emergencyWhitelist |-> {a},
           whitelist |-> {}, blacklist |-> {}, exemptIps |-> {}, countries |-> TRUE,
           detection |-> TRUE, enableIpBanning |-> TRUE, rateLimitAutoBan |-> TRUE,
           autoBanThreshold |-> 2, threatBan |-> [Zero EXCEPT !["sqli"] = 1]]

MCConfigs ==
    {Active,
     [Active EXCEPT !.passiveMode = TRUE],
     [Active EXCEPT !.whitelist = {a}],
     [Active EXCEPT !.exemptIps = {a}, !.emergency = TRUE],
     [Active EXCEPT !.redisMayFail = TRUE, !.redisFailOpen = TRUE],
     [Active EXCEPT !.redisMayFail = TRUE, !.rateLimitAutoBan = FALSE, !.blacklist = {b}]}
=============================================================================
