SPECIFICATION Spec
CONSTANTS
    Values <- MCValues
    Addrs = {a1, a2}
    CFG_IPV4_ARRAY_MAX = 2
    MaxOpts = 5
    MaxConns = 3
INVARIANTS
    TypeOK
    LimitsKeptTogether
