CONSTANTS
    Rates <- MCRates
    MaxTicks = 12
SPECIFICATION Spec
INVARIANTS
    TypeOK
    RateNeverExceeded
    RateDelivered
    Ledger
