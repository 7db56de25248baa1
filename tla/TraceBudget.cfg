CONSTANTS
  Budget = 8
  OperationBudget = 5
  Window = 2
  MaxRecords = 2
  MaxAttempts = 2
SPECIFICATION Spec
INVARIANTS DetailBounded DropsAnnounced EndAlwaysTraced TraceMatchesOutput
