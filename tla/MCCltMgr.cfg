SPECIFICATION Spec
CONSTANTS
    Conns = {c1, c2, c3}
    Configs <- MCConfigs
    Statuses = {200}
    MaxConns = 3
    MaxReqs = 3
    MaxFails = 1
    BatchMax = 2
SYMMETRY MCSymmetry
INVARIANTS
    TypeOK
    NconnMatchesList
    NoDanglingEvents
    RequestFreedOnce
    OneRequestAtATime
    ConnHasWaker
    QuotasRespected
    RequestsAccounted
    PhaseTimers
    CleanExit
PROPERTIES
    LifecycleForward
    QuietAfterRunning
    DiesOnlyInFlight
    ImplementsLifecycle
