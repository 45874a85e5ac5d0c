CONSTANTS
  Plans <- MCPlans
  Size = 3
  Width = 1
SPECIFICATION Spec
INVARIANT EveryBranchIsPopulated
