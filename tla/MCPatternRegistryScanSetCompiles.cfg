SPECIFICATION RegistrySpec
CONSTANTS
    Processes = {"p", "q"}
    Sources = {"[a,b]", "[a", "b]"}
    Offered = {"[a,b]", "b]"}
    Compiles = {"[a,b]", "b]"}
    Dangerous = {"b]"}
    Pieces <- MCPieces
    Versions = {1, 2}
    MaxBoots = 3
INVARIANT ScanSetCompiles
CHECK_DEADLOCK FALSE
