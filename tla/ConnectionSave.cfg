SPECIFICATION Spec
CONSTANTS
  panel = panel
  worker = worker
  nas = nas
  web = web
  rsa1 = rsa1
  rsa2 = rsa2
  ed1 = ed1
  Conns = {panel, worker}
  Workers = {}
  Servers = {nas, web}
  Hosts = {"nas", "web"}
  Keys = {rsa1, rsa2, ed1}
  KeysAt <- MCKeysAt
  HostOf <- MCHostOf
  TypeOf <- MCTypeOf
  FilesFail = FALSE
INVARIANT SavedIsKept
