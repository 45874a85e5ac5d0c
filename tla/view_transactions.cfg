CONSTANTS
    None = None
    farms = farms
    growers = growers
    total = total
    moved = moved
    SourceNames <- Sources
    ViewNames <- Views
    ReadsSource = TRUE
    Orderly = TRUE
    MaxWrites = 3
    MaxDdl = 2
    MaxSavepoints = 2
    MaxTransactions = 2
    MaxRetained = 1
    MaxCollectors = 2
SPECIFICATION Spec
CHECK_DEADLOCK FALSE
SYMMETRY Names
INVARIANT TypeOK
INVARIANT PendingDeltasAreCovered
INVARIANT ReadsSeeWrites
INVARIANT NothingIsRefused
INVARIANT OneBatch
INVARIANT CatalogMatchesSchema
