CONSTANTS
  Nil = Nil
  c1 = c1
  c2 = c2
  x = x
  Client = {c1}
  Key = {x}
  Value = {"a", "a b"}
  Word <- FirstWord
  KeyWord <- SameKey
  Command <- PutThenDelete
  MaxCalls = 2
  MaxIndex = 3
  MaxTerm = 2
  MaxSnapshots = 1
SPECIFICATION Spec
INVARIANTS
  KVTypeOK
  FinishIsSafe
  PendingIsLive
PROPERTIES
  OnlyOwnEntryIsDropped
CHECK_DEADLOCK FALSE
