SPECIFICATION ServingSpec
CONSTANTS
    Scans = {s1, s2, s3}
    NoScan = NoScan
    Size = 2
    MaxWorkers = 7
    r1 = r1
    r2 = r2
    r3 = r3
    r4 = r4
    r5 = r5
    q1 = q1
    q2 = q2
    q3 = q3
    Reads = {r1, r2, r3, r4, r5}
    Requests = {q1, q2, q3}
    RequestOf <- MCRequestOf
    LimitOf <- MCLimitOf
    MaxBytesOf <- MCMaxBytesOf
    Callers <- MCCallers
    Surface <- MCSurface
    Surfaces = {"http", "ws"}
    Boots = {1, 2, 3, 4}
    BootConfigs <- MCBootConfigs
    Deployments <- MCAdapterDeployments
    MaxBootFaults = 2
    MaxCallerFaults = 2
    Emitters <- MCEmitters
    Sinks <- MCSinks
    Wired = {"agent", "otel"}
    Score <- MCScore
    EventSetups <- MCSetups
    MaxSinkFaults = 2
INVARIANTS
    SlotsKeepWorking
    AnswerBelongsToScan
    SlotsAccounted
    WaitersWillBeWoken
    OneEngine
    WsFailsClosed
    ReachesEverySink
PROPERTIES
    ResolvedOnce
    EveryScanResolves
    EveryReadReturns
    ImplementsGate
    FailedBootIsForgotten
    EveryCallerAnswered
CHECK_DEADLOCK FALSE
