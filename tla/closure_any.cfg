CONSTANTS
  Row <- ClosureRow
  Key <- Identity
  Fact <- ClosureFact
  Sides = 2
  Reads <- ClosureReads
  Rules = 2
  Clause <- ClosureClause
  NoMember = NoMember
  MaxCopies = 1
  RoundBudget = 2
  MaxDrains = 1
  AnyBatch = TRUE
SPECIFICATION FairSpec
INVARIANT NoMemberLost
PROPERTY StatementReturns
