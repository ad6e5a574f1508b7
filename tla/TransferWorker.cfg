SPECIFICATION FairSpec
CONSTANTS
  MaxTasks = 3
  Directories <- MCDirectories
  Moves <- MCMoves
  LateEnqueue = TRUE
INVARIANTS
  TypeOK
  TasksInOrder
  ReportsOwnTask
  NoTaskLost
  QuietFinishIsComplete
  FinishedIsLast
  BoundedOverrun
PROPERTIES
  ImplementsJob
  StopEnds
  CancelEndsUnlessPaused
