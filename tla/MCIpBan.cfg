SPECIFICATION Spec
CONSTANTS
    p1 = p1
    p2 = p2
    c1 = c1
    c2 = c2
    c3 = c3
    Procs = {p1}
    Calls = {c1, c2}
    NoIP = NoIP
    ProcOf <- MCProcOf
    IPs = {i1, i2}
    Durations = {1, 2}
    MaxSize = 2
    MaxTime = 4
INVARIANTS
    NoPhantomBan
    RedisTtlCoversBan
PROPERTY ForgetsOnlyWhenFullOrLifted
SYMMETRY Symmetry
CHECK_DEADLOCK FALSE
