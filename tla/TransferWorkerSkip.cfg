SPECIFICATION Spec
CONSTANTS
  MaxTasks = 1
  Directories <- MCDirectories
  Moves <- MCMoves
  LateEnqueue = FALSE
INVARIANT SkippedIsKept
