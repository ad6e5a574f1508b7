SPECIFICATION Spec
CONSTANT MaxBlocks = 2
INVARIANTS
  Resumable
  DoneIsExact
  NoGhostOnDownload
  ProgressIsExact
  ChangedOnlyWhenSettled
