CONSTANTS
  Nil = Nil
  c1 = c1
  c2 = c2
  x = x
  Client = {c1}
  Key = {x}
  Value = {"a", "a b"}
  Word <- FirstWord
  KeyWord <- SameKey
  Command <- PutThenDelete
  MaxCalls = 3
  MaxIndex = 4
  MaxTerm = 1
  MaxSnapshots = 0
SPECIFICATION RetrySpec
PROPERTIES
  EveryAwaitedPutIsAnswered
CHECK_DEADLOCK FALSE
