SPECIFICATION Spec
CONSTANTS
  w1 = w1
  w2 = w2
  w3 = w3
  Workers <- TwoWorkers
  WorkerLimit = 2
  MaxRecords = 3
INVARIANTS
  InterruptIsNotInputError
