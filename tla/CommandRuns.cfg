SPECIFICATION Spec
CONSTANTS
  MaxRecords = 3
  MaxAttempts = 2
INVARIANTS
  LocalErrorsAreFree
  NoSilentLoss
  UsageBalances
  SummaryIsFinal
  ExitMeansComplete
