SPECIFICATION DetectionSpec
CONSTANTS
    r1 = r1
    Executions = {r1}
    Checks0 <- MCChecks
    CustomCheck = "custom_validators"
    MaxListEdits = 1
    p1 = p1
    p2 = p2
    r2 = r2
    r3 = r3
    r4 = r4
    theIp = theIp
    thePath = thePath
    NoSession = NoSession
    Procs = {p1, p2}
    Requests = {r1, r2, r3, r4}
    Exempt = {r4}
    IpOf <- MCIpOf
    PathOf <- MCPathOf
    SessionOf <- OneSession
    CountryOf <- Unknown
    Configs <- MCConfigs
    MaxTime = 4
    MaxFlushes = 1
    Hits = {1, 2, 3, 4}
    HitIp <- MCHitIp
    HitPath <- MCHitPath
    ValidIps = {"bob", "eve"}
    BadPaths = {"a:b"}
    LimitConfigs <- MCLimitConfigs
    HitLimit = 1
    HitWindow = 2
    BanThreshold = 1
    MaxWindows = 1
    MaxLimitFaults = 1
    MaxLimitClock = 3
    Node <- MCNode
    Key <- MCKey
    ScanRequests <- MCScanRequests
    ScanConfigs <- MCScanConfigs
    ProxyHeaders = {"host"}
    AddressHeaders = {"host"}
    Addresses = {4}
    Categories = {"xss", "ssrf"}
    MaxScanValues = 7
    MaxScanChars = 8
    MaxJsonDepth = 2
    MaxDetectFaults = 1
    FormBodies <- MCBodies
    MinRunLength = 2
    d1 = d1
    d2 = d2
    Detects = {d1, d2}
    Table <- MCTable
    Custom <- MCCustom
    Hydrated <- MCHydrated
    Traits <- MCTraits
    Texts <- MCTexts
    Threshold = 2
    PoolSize = 2
    Cooldown = 1
    MaxScanClock = 2
    MaxPools = 2
    MaxFaults = 2
    MaxEdits = 1
    Keys = {"k1", "k2", "k3"}
    Compiling = {1, 2}
    Recording = {1, 2}
    MaxCacheSize = 2
    MaxOrder = 5
    MaxTracked = 2
    EmissionCooldown = 2
    MaxEngineClock = 3
    Processes = {"p", "q"}
    Sources = {"[a,b]", "[a", "b]"}
    Offered = {"[a,b]", "b]"}
    Compiles = {"[a,b]", "b]"}
    Dangerous = {"b]"}
    Pieces <- MCPieces
    Versions = {1, 2}
    MaxBoots = 3
    Clients = {"bob", "eve"}
    Visits = {1, 2, 4}
    Matching = {1, 2}
    Client <- MCClient
    RuleSets <- MCRuleSets
    MaxRows = 1
    MaxBehaviorClock = 3
    Questions <- MCQuestions
    ExcludePaths <- MCExcl
    RouteBatches <- MCRouteBatches
    DecoratedIds = {"h1"}
    MaxBatches = 2
    Address <- MCAddress
    Entry <- MCEntry
    AccessConfigs <- MCAccessConfigs
    Journeys <- MCJourneys
INVARIANTS
    HookTellsTheTruth
    AllowedMeansChecked
    AllowedWithinLimit
    RefusedOnlyOverLimit
    LimitIsEarnedAndKept
    ScansWhatIsConfigured
    TextIsScanned
    CleanMeansTried
    EngineKeepsBooks
    AdmittedByThisEngine
    ActsOnExcess
    ExcludedIsTheSubtree
    LongestEntryWins
    IdentityIsEarned
SYMMETRY Symmetry
CHECK_DEADLOCK FALSE
