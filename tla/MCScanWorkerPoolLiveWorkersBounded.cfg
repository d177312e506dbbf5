SPECIFICATION PoolSpec
CONSTANTS
    Scans = {s1, s2, s3}
    NoScan = NoScan
    Size = 2
    MaxWorkers = 7
INVARIANT LiveWorkersBounded
CHECK_DEADLOCK FALSE
