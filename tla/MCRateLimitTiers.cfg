SPECIFICATION Spec
CONSTANTS
    p1 = p1
    p2 = p2
    r1 = r1
    r2 = r2
    r3 = r3
    r4 = r4
    theIp = theIp
    thePath = thePath
    NoSession = NoSession
    Procs = {p1, p2}
    Requests = {r1, r2, r3, r4}
    Exempt = {r4}
    IpOf <- MCIpOf
    PathOf <- MCPathOf
    SessionOf <- OneSession
    CountryOf <- Unknown
    Configs <- MCRouteConfigs
    MaxTime = 4
    MaxFlushes = 1
INVARIANT RefusedOnlyOverConfigured
CHECK_DEADLOCK FALSE
