SPECIFICATION Spec
CONSTANTS
    Conns = {c1, c2, c3}
    Configs <- MCConfigs
    Statuses = {200}
    MaxConns = 2
    MaxReqs = 2
    MaxFails = 1
    BatchMax = 1
INVARIANTS
    NoUseOfFreedRequest
