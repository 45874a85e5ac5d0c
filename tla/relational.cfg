SPECIFICATION Spec
CONSTANTS
  Schema <- Columns2
  Scalar <- ScalarOf
  Bind <- BoundBy
  Reply <- AnswerTo
  Queries <- Selects
  SourceRow <- Rows
  Contents <- Loads
  MaxRows = 4
  MaxBatch = 2
  MaxRounds = 4
INVARIANT ResultIsQuery
INVARIANT DeltaIsChange
INVARIANT ApplyNeverRefused
