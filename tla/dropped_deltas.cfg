CONSTANTS
    None = None
    farms = farms
    growers = growers
    total = total
    moved = moved
    SourceNames <- Sources
    ViewNames <- Views
    ReadsSource = TRUE
    Orderly = FALSE
    MaxWrites = 1
    MaxDdl = 1
    MaxSavepoints = 1
    MaxTransactions = 1
    MaxRetained = 1
    MaxCollectors = 2
SPECIFICATION Spec
CHECK_DEADLOCK FALSE
INVARIANT PendingDeltasAreCovered
