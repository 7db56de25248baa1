SPECIFICATION Spec
CONSTANTS
  Invocations <- MCInvocations
  Files <- MCFiles
  Json <- MCJson
  MaxEdits = 0
INVARIANTS
  AcceptedCanBeSent
