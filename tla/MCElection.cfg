CONSTANTS
  Nil = Nil
  Server = {s1, s2, s3}
  Impatient = {s1, s2}
  Crashing = {s2, s3}
  Compacting = {}
  MaxTerm = 2
  MaxIndex = 0
  MaxPreVoteRound = 1
  MaxReadRound = 0
  MaxLate = 1
  Failing = {}
  Flaky = {s1, s2, s3}
  Overtaken = {}
SPECIFICATION ElectionSpec
INVARIANTS
  VoteOnce
  ElectionSafety
CHECK_DEADLOCK FALSE
