CONSTANTS
  MaxRetries = 2
  MaxRetriesLimit = 5
  Base = 1
  WaitCap = 40
  Second = 4
  Modulus = 256
  RetryAfters <- Headers
SPECIFICATION Spec
INVARIANT OverCapFallsBack
