SPECIFICATION Spec
CONSTANTS
  Json <- MCJson
  Cases <- MCCases
  Replies <- NullReplies
  RecordLimit = 4
  CountLimit = 2
  InputLimit = 9
  BufferSize = 3
  Float64 <- MCFloat64
  Decimal <- MCDecimal
  OutOfRange <- MCOutOfRange
  MaxFloat = 28
  IntLimit = 24
INVARIANTS
  RequiredFieldsAreTyped
