CONSTANTS
  Nil = Nil
  Server = {s1, s2, s3}
  First = s1
  Impatient = {}
  Crashing = {s3}
  Compacting = {s1, s3}
  Failing = {"AppendEntries", "InstallSnapshot"}
  Flaky = {s1, s2, s3}
  MaxTerm = 1
  MaxIndex = 2
  MaxPreVoteRound = 0
  MaxReadRound = 0
  MaxLate = 1
  Overtaken = {}
SPECIFICATION SnapshotSpec
INVARIANTS
  TypeOK
  CommitWithinLog
  MatchIndexIsHeld
  DiskIsCurrent
PROPERTIES
  CommittedIsKept
  ImplementsReplicatedLog
CHECK_DEADLOCK FALSE
