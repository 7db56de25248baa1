CONSTANTS
  MaxRetries = 7
  MaxRetriesLimit = 2
  Base = 1
  WaitCap = 40
  Second = 4
  Modulus = 256
  RetryAfters <- Headers
SPECIFICATION Spec
INVARIANTS
  ExecutedAtMostOnce
  RefusalIsCertain
  AttemptsCounted
  
  InterruptEndsRetries
PROPERTIES
  CallReturns
