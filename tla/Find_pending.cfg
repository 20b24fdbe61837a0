SPECIFICATION Spec
CONSTANTS
  all1 = all1
  app1 = app1
  Configs = {all1}
  AppOnlyConfigs = {}
  LicensedConfigs = {all1}
  DatabaseConfigs = {all1}
  Folders = {f1}
  Clients = {c1}
  Calls = {"create"}
  Workers = {w1}
  MaxPolls = 2
  MaxRestarts = 1
  NoRecord = NoRecord
  NoConfig = NoConfig
INVARIANT PendingHasJob
