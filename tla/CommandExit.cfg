SPECIFICATION Spec
CONSTANTS
  MaxRecords = 1
  MaxAttempts = 1
INVARIANTS
  StableCodeWins
