----------------------------- MODULE MCRefresh -----------------------------
(* What a process keeps up to date in the background, one of it at a time:   *)
(* the dynamic rules, the cloud ranges, the country database and the         *)
(* security headers.                                                         *)
(*                                                                           *)
(* Rules: as in MCDynamicRules.  Cloud: two refreshes of one process that    *)
(* overlap (another process that shares Redis is to it like an overlapping   *)
(* refresh) and two providers, one of which publishes a second edition.      *)
(* GeoIp: an initialization and a refresh of one process over good and       *)
(* broken editions.  Headers: two paths and a cache of one entry.            *)
EXTENDS MCDynamicRules, CloudRanges, GeoIp, SecurityHeaders

VARIABLE focus

refreshVars == <<vars, cloudVars, geoVars, headersVars>>

-----------------------------------------------------------------------------
MCHost == [r \in Refreshes |-> "p"]
MCLastEdition == [v \in {"aws", "gcp"} |-> IF v = "aws" THEN 2 ELSE 1]
\* An address of the edition, and one that never changes.
MCCovers == [v \in {"aws", "gcp"} |-> [e \in 1..MCLastEdition[v] |-> {<<v, e>>, <<v, 0>>}]]
MCProviders == <<"aws", "gcp">>

MCJobHost == [j \in Jobs |-> "p"]
MCJobKind == [j \in Jobs |-> IF j = 2 THEN "refresh" ELSE "initialize"]

HeaderOption(isEnabled, csp, hsts) ==
    [enabled |-> isEnabled, csp |-> csp, hsts |-> hsts, custom |-> Unset]
MCOptions == {HeaderOption(TRUE, "x", Unset), HeaderOption(FALSE, Unset, Unset)}

-----------------------------------------------------------------------------
\* What is not in focus stays in one initial state.
RefreshInit ==
    /\ focus \in {"rules", "clouds", "countries", "headers"}
    /\ focus # "rules" => config = Store(TRUE, TRUE, FALSE)
    /\ focus # "clouds" => storeKind = "none"
    /\ focus # "countries" =>
           /\ geoConfig = [redis |-> FALSE, token |-> FALSE]
           /\ disk = [h \in GeoHosts |-> Nothing] /\ outdated = {}
    /\ focus # "headers" => storedConf = NoneStored
    /\ Init /\ CloudInit /\ GeoInit /\ HeadersInit

RefreshNext ==
    /\ UNCHANGED focus
    /\ \/ focus = "rules" /\ Next /\ UNCHANGED <<cloudVars, geoVars, headersVars>>
       \/ focus = "clouds" /\ CloudNext /\ UNCHANGED <<vars, geoVars, headersVars>>
       \/ focus = "countries" /\ GeoNext /\ UNCHANGED <<vars, cloudVars, headersVars>>
       \/ focus = "headers" /\ HeadersNext /\ UNCHANGED <<vars, cloudVars, geoVars>>

\* Fairness and CloudFairness of what is in focus: the polls' fair actions are disabled
\* in the initial state.
RefreshSpec ==
    /\ RefreshInit /\ [][RefreshNext]_<<focus, refreshVars>>
    /\ WF_vars(focus = "rules" /\ InitializeAgent) /\ PollFairness
    /\ \A h \in Hosts :
           /\ WF_cloudVars(focus = "clouds" /\ IntervalElapses(h))
           /\ WF_cloudVars(focus = "clouds" /\ ClearStore(h))
           /\ \A v \in Provider : WF_cloudVars(focus = "clouds" /\ EntryExpires(h, v))
    /\ \A r \in Refreshes :
           /\ WF_cloudVars(focus = "clouds" /\ CheckRefreshes(r))
           /\ WF_cloudVars(focus = "clouds" /\ RefreshStep(r))
=============================================================================
