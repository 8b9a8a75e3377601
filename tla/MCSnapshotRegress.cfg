CONSTANTS
  Nil = Nil
  Server = {s1, s2, s3}
  First = s1
  Impatient = {}
  Crashing = {}
  Compacting = {s1}
  Failing = {"AppendEntries", "InstallSnapshot"}
  Flaky = {s3}
  MaxTerm = 1
  MaxIndex = 3
  MaxPreVoteRound = 0
  MaxReadRound = 0
  MaxLate = 0
  Overtaken = {}
SPECIFICATION SnapshotSpec
INVARIANTS
  StateMachineIsCurrent
CHECK_DEADLOCK FALSE
