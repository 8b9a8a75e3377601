CONSTANTS
  Worker = {w1, w2}
  Client = {c1}
  Peer = {p1}
  Reader = {q1}
  MaxTasks = 1
  MaxCallers = 2
  MaxSurprises = 1
  ControlBatch = 1
  CommandBatch = 1
SPECIFICATION NodeFairSpec
INVARIANTS
  AcceptedTasksAreRun
  NoTaskBesideASleeper
  NothingIsLeft
PROPERTIES
  EveryCallerIsTold
  DeadlinesAreNoticed
  ShutdownEnds
CHECK_DEADLOCK FALSE
