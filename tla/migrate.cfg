SPECIFICATION Spec
CONSTANTS
    Scripts <- Script
    MaxRuns = 2
INVARIANTS
    DoneMeansWired
    MarketsSeparate
CHECK_DEADLOCK FALSE
