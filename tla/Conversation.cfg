SPECIFICATION Spec
CONSTANTS
  a = a
  b = b
  Ids = {a, b}
  NoId = NoId
  MaxRetries = 2
  MinMessages = 2
  MaxHistory = 3
  Requests <- Lists
  MaxSteps = 2
  MaxCalls = 2
  MaxAdded = 14
INVARIANTS ValidatedIsValid NewestIsSent ToolRuleKept MemoryIsRecent
PROPERTIES EveryGenerateEnds
