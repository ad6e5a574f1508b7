SPECIFICATION Spec
CONSTANTS
  Hosts = {"h1"}
  OtherNames = {"x"}
  FolderNames <- MCFolderNames
  LowerCase <- MCLowerCase
  HeaderName <- MCHeaderName
  MaxProfiles = 2
  MaxFolders = 2
INVARIANTS
  RestartKeepsProfiles
  EveryProfileIsListed
  SaveHitsTheLoaded
