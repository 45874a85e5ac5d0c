CONSTANTS
    bodies = bodies
    grants = grants
    totals = totals
    body = body
    grant = grant
    alice = alice
    Names <- MCNames
    Tables <- MCTables
    Vals <- MCVals
    Queries <- MCQueries
    DropsHalves = FALSE
    MaxWrites = 2
    MaxFrontier = 2
    MaxInstall = 4
SPECIFICATION Spec
INVARIANT LoadedViewsAreExact
INVARIANT CollectorsBelong
INVARIANT ReopensUnlessCutShort
PROPERTY ComposeIsAllOrNothing
PROPERTY OneFrontierPerCommit
