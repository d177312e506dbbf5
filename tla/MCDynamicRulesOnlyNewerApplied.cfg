SPECIFICATION Spec
CONSTANTS
    Last = 3
    IdOf <- MCIdOf
    VersionOf <- MCVersionOf
    Emergency = {2}
    MayExpire = {2}
    Polls = {u1, u2}
    Deployments <- MCDeployments
    MaxCrashes = 1
INVARIANT OnlyNewerApplied
CHECK_DEADLOCK FALSE
