SPECIFICATION Spec
CONSTANTS
  Paths <- MCPaths
  Top = "top"
  Parent <- MCParent
  LinkTo <- MCLinkTo
  Source <- MCSource
  OldDisk <- MCOldDisk
  OldTarget <- MCOldTarget
  Late = {"g"}
  MaxUnlisted = 1
INVARIANTS
  MoveKeepsData
  NothingElseGoes
  NoSilentOverwrite
  TempIsCleaned
  SyncIsComplete
CHECK_DEADLOCK FALSE
