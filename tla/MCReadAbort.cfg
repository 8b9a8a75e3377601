CONSTANTS
  Nil = Nil
  Server = {s1, s2, s3}
  First = s1
  Impatient = {}
  Crashing = {}
  Compacting = {s1}
  Failing = {"AppendEntries"}
  Flaky = {s1, s2, s3}
  MaxTerm = 1
  MaxIndex = 2
  MaxPreVoteRound = 0
  MaxReadRound = 1
  MaxLate = 0
  Overtaken = {}
  Far = {}
SPECIFICATION LeaderSpec
INVARIANTS
  AssertionsHold
CHECK_DEADLOCK FALSE
