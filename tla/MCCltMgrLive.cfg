SPECIFICATION FairSpec
CONSTANTS
    Conns = {c1, c2}
    Configs <- MCLiveConfigs
    Statuses = {200}
    MaxConns = 3
    MaxReqs = 2
    MaxFails = 1
    BatchMax = 2
PROPERTIES
    RunEnds
    DeadIsReaped
