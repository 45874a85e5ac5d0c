CONSTANTS
  Programs <- All
  Compiled <- PlanOf
  AnswerTo <- AnswerOf
  Schema <- Names
  TableRows <- Rows3
  Installs <- SampleInstalls
  PartsOf <- SampleParts
  Client <- SampleRows
  Batches <- SampleInterns
  MinInt <- LeastInt
  MaxInt = 3
  ViewTables = 6
  SourceReads = 16
  KeyReaders = 4
  MaxChanges = 2
  MaxMarkedChanges = 1
  MaxEvaluations = 5
  MaxFrontier = 2
  MaxDictionary = 8
  NoMark = NoMark
SPECIFICATION HostSpec
INVARIANT ImagesAreEvaluation
INVARIANT HostHasTheAnswer
INVARIANT NothingIsLeftOver
INVARIANT InputsAreWhole
PROPERTY SettleReturns
