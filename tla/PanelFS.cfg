SPECIFICATION FairSpec
CONSTANTS
  f1 = f1
  f2 = f2
  FSs = {f1, f2}
  Servers = {"nas", "web"}
  Names = {"a"}
  MaxDepth = 3
  MaxTimers = 2
INVARIANTS
  SessionIsOfProfile
  KeptAlive
  FocusIsThere
PROPERTY CallsEnd
