SPECIFICATION Spec
CONSTANTS
    NumThreads = 2
    MaxReqs <- MCMaxReqs
INVARIANTS
    RunTotalFinal
