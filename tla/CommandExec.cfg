SPECIFICATION Spec
CONSTANTS
  MaxChunks = 4
  QueueLimit = 3
INVARIANTS
  ThreadIsSafe
  OutputIsWhole
  CompletedIsTrue
PROPERTY StopIsHeard
