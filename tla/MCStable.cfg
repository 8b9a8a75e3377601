CONSTANTS
  Nil = Nil
  Server = {s1, s2, s3}
  First = s1
  Impatient = {}
  Crashing = {}
  Compacting = {s1}
  Far = {s3}
  Failing = {"AppendEntries", "ReadHeartBeat", "InstallSnapshot"}
  Flaky = {s2, s3}
  MaxTerm = 1
  MaxIndex = 2
  MaxPreVoteRound = 0
  MaxReadRound = 2
  MaxLate = 0
  Overtaken = {}
SPECIFICATION StableSpec
PROPERTIES
  FollowersCatchUp
  EveryReadIsAnswered
CHECK_DEADLOCK FALSE
