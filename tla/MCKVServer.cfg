CONSTANTS
  Nil = Nil
  c1 = c1
  c2 = c2
  x = x
  Client = {c1}
  Key = {x}
  Value = {"a", "a b"}
  Word <- FirstWord
  KeyWord <- SameKey
  Command <- PutThenDelete
  MaxCalls = 3
  MaxIndex = 4
  MaxTerm = 2
  MaxSnapshots = 0
SPECIFICATION ServiceSpec
PROPERTIES
  ImplementsKVService
CHECK_DEADLOCK FALSE
