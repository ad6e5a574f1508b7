SPECIFICATION FairSpec
INVARIANTS
  CrashNeedsMain
  ThreadEndsFirst
  ListedIsThere
  WorkerIsFreed
  ErrorIsShown
PROPERTY EndIsSeen
CHECK_DEADLOCK FALSE
