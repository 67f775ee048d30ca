SPECIFICATION FairSpec
CONSTANTS
    NumThreads = 2
    MaxReqs <- MCMaxReqs
INVARIANTS
    TypeOK
    TotalsConsistent
    SweepBracketed
    FreedWhenUnused
PROPERTIES
    DiffsNonnegative
    ProgramEnds
