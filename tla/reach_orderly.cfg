CONSTANTS
  Row <- SpelledRow
  Key <- SpelledKey
  Fact <- SpelledFact
  Sides = 2
  Reads <- SpelledReads
  Rules = 2
  Clause <- SpelledClause
  NoMember = NoMember
  MaxCopies = 1
  RoundBudget = 100
  MaxDrains = 2
  AnyBatch = FALSE
SPECIFICATION Spec
INVARIANT TypeOK
INVARIANT MembersAreLeastFixpoint
INVARIANT ResultIsMembers
INVARIANT ScratchIsEmpty
INVARIANT RoundsAreBounded
INVARIANT ApplyNeverRefused
PROPERTY ImplementsView
