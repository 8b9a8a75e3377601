CONSTANTS
  Nil = Nil
  NoFile = Nil
  ParseError = ParseError
  Key = {1, 2, 3}
  Value = {"a", "b", "b c"}
  Written = {"a", "b c"}
  Word <- FirstWord
  KeyWord <- FirstKeyWord
  MaxLevel = 2
  MaxIndex = 3
  MaxTerm = 1
SPECIFICATION StorageSpec
INVARIANTS
  ListIsMap
  ListIsWellFormed
  EqualityIsExact
  SnapshotIsRestored
  DiskIsSaved
CHECK_DEADLOCK FALSE
