SPECIFICATION Spec
CONSTANTS
    Values <- MCFew
    Addrs = {a1}
    CFG_IPV4_ARRAY_MAX = 2
    MaxOpts = 5
    MaxConns = 2
INVARIANTS
    TotalKept
