CONSTANTS
  Row <- ReachRow
  Key <- Identity
  Fact <- ReachFact
  Sides = 2
  Reads <- ReachReads
  Rules = 2
  Clause <- ReachClause
  NoMember = NoMember
  MaxCopies = 1
  RoundBudget = 100
  MaxDrains = 1
  AnyBatch = TRUE
SPECIFICATION Spec
INVARIANT MembersAreLeastFixpoint
