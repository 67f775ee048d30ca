SPECIFICATION FairSpec
CONSTANTS
    Reqs = {r1, r2, r3}
    NoReq = NoReq
    MaxCount = 3
    BufSize = 2
    Sizes = {0, 1, 2, 3, 4, 5}
    MaxRequests = 4
INVARIANTS
    TypeOK
    RefcountExact
    NothingLeaks
    ReplyWhole
    WriteHookValid
PROPERTIES
    ReplyEnds
