----------------------------- MODULE MCRateLimit -----------------------------
(* Requests of one client to one path, one of them exempt, in deployments    *)
(* without Redis, with the script, and with single commands and failures.    *)
EXTENDS RateLimit, TLC

CONSTANTS p1, p2, r1, r2, r3, r4, theIp, thePath

Constantly(v) == [r \in Requests |-> v]
MCIpOf == Constantly(theIp)
MCPathOf == Constantly(thePath)
OneSession == Constantly("s")
Unknown == Constantly("??")

TwoPerTwo == [limit |-> 2, window |-> 2]
OnePerTwo == [limit |-> 1, window |-> 2]
Plenty == [limit |-> 9, window |-> 2]
TwoProcs == [r \in Requests |-> IF r = r3 THEN p2 ELSE p1]

\* One process without Redis, a global limit and one per session.
Memory ==
    [procOf |-> Constantly(p1), passive |-> {}, hasRedis |-> FALSE, scriptLoaded |-> {},
     redisMayFail |-> FALSE, routeLimits |-> thePath :> <<>>, sessionLimits |-> thePath :> <<TwoPerTwo>>,
     endpointLimits |-> thePath :> <<>>, geoLimits |-> thePath :> <<>>, globalLimit |-> TwoPerTwo]

\* Two processes with the script, the second one passive.
Redis == [Memory EXCEPT !.procOf = TwoProcs, !.passive = {p2}, !.hasRedis = TRUE,
                        !.scriptLoaded = {p1, p2}, !.sessionLimits = thePath :> <<>>,
                        !.globalLimit = OnePerTwo]

\* Both active; the second never loaded the script, and operations fail.
Degraded == [Redis EXCEPT !.passive = {}, !.scriptLoaded = {p1}, !.redisMayFail = TRUE]

\* A route with a limit and a geo limit, as in decorators/rate-limiting.md.
RouteAndGeo == [Memory EXCEPT !.routeLimits = thePath :> <<TwoPerTwo>>,
                              !.geoLimits = thePath :> ("*" :> TwoPerTwo),
                              !.sessionLimits = thePath :> <<>>, !.globalLimit = Plenty]

MCConfigs == {Memory, Redis, Degraded}
MCRouteConfigs == {RouteAndGeo}
=============================================================================
