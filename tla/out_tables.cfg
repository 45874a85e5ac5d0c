CONSTANTS
  Plans <- MCPlans
  Size = 4
  Width = 1
SPECIFICATION Spec
INVARIANT TypeOK
INVARIANT DrainReadsItsInputs
INVARIANT PopulationReadsItsInputs
INVARIANT TablesAreCleared
