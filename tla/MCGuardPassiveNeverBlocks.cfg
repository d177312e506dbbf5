SPECIFICATION Spec
CONSTANTS
    a = a
    b = b
    r1 = r1
    r2 = r2
    r3 = r3
    Ips = {a, b}
    Requests = {r1, r2, r3}
    Inputs <- MCInputs
    Configs <- MCConfigs
    Categories <- MCCategories
    MaxTracked = 1
CHECK_DEADLOCK FALSE
SYMMETRY Symmetry
INVARIANT PassiveNeverBlocks
