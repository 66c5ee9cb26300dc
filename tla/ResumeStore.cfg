SPECIFICATION StoreSpec
CONSTANTS
    Items = {i1, i2, i3}
    Positions = {1, 2}
    FinishAt = 2
    MaxItems = 2
    MaxReports = 4
SYMMETRY Symmetry
INVARIANTS StoppedSurvives
PROPERTIES ShutdownLosesNothing ImplementsDurable
