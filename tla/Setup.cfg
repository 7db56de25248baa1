SPECIFICATION Spec
CONSTANTS
  Invocations <- MCInvocations
  Files <- MCFiles
  Json <- MCJson
  MaxEdits = 1
INVARIANTS
  StdinServesOnce
  SentIsWhatWasGiven
  CredentialIsLast
  KeysStayPrivate
  ReservedNamesHold
  ModelFitsProvider
PROPERTY
  ImplementsCommand
