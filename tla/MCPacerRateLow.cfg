CONSTANTS
    Rates <- MCLowRates
    MaxTicks = 100
SPECIFICATION Spec
INVARIANT PositiveRateServed
