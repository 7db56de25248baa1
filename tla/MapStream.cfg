SPECIFICATION Spec
CONSTANTS
  w1 = w1
  w2 = w2
  w3 = w3
  Workers <- ThreeWorkers
  WorkerLimit = 3
  MaxRecords = 5
INVARIANTS
  SendsNeverBlock
  ReadAheadBounded
  EvaluatedAtMostOnce
  SuccessIsComplete
  JoinedOnReturn
  NoSelfInflictedInterrupt
PROPERTIES
  ImplementsOrderedStream
  QuietAfterFailure
  InterruptReturns
  FailureReturns
  Terminates
