SPECIFICATION RefreshSpec
CONSTANTS
    Last = 3
    IdOf <- MCIdOf
    VersionOf <- MCVersionOf
    Emergency = {2}
    MayExpire = {2}
    Polls = {u1, u2}
    Deployments <- MCDeployments
    MaxCrashes = 1
    Hosts = {"p"}
    Providers <- MCProviders
    Refreshes = {1, 2}
    Host <- MCHost
    Covers <- MCCovers
    LastEdition <- MCLastEdition
    MaxTroubles = 2
    GeoHosts = {"p"}
    Jobs = {1, 2}
    JobHost <- MCJobHost
    JobKind <- MCJobKind
    Editions = {"good", "bad"}
    Broken = {"bad"}
    GeoRetries = 2
    MaxGeoFaults = 2
    PathKeys = {"a", "b"}
    Values = {"x"}
    Options <- MCOptions
    CacheTtl = 2
    CacheLimit = 1
    MaxHeadersClock = 3
INVARIANT DurableRuleInForce
PROPERTIES
    SnapshotNeverLost
    ConvergesToOffer
    ExpiredRuleRetires
    KnownRangesKept
    BlocksWhatIsPublished
    ReaderKept
    ServedHeadersRecent
CHECK_DEADLOCK FALSE
