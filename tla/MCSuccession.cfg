CONSTANTS
  Nil = Nil
  Server = {s1, s2, s3}
  First = s1
  Second = s2
  Failing = {"ReadHeartBeat", "AppendEntries"}
  Flaky = {s1, s3}
  Impatient = {}
  Crashing = {}
  Compacting = {}
  MaxTerm = 2
  MaxIndex = 3
  MaxPreVoteRound = 1
  MaxReadRound = 2
  MaxLate = 0
  Overtaken = {}
SPECIFICATION SuccessionSpec
INVARIANTS
  LogMatching
  LeaderCompleteness
  StateMachineSafety
  InFlightIsExact
  ReadRoundIsFresh
  LeaderStateOnlyAtLeader
PROPERTIES
  CommittedIsKept
  ImplementsReplicatedLog
CHECK_DEADLOCK FALSE
