SPECIFICATION FairSpec
CONSTANTS
  all1 = all1
  app1 = app1
  Configs = {all1, app1}
  AppOnlyConfigs = {app1}
  LicensedConfigs = {all1}
  DatabaseConfigs = {all1}
  Folders = {f1}
  Clients = {c1}
  Calls <- AllCalls
  Workers = {w1}
  MaxPolls = 1
  MaxRestarts = 1
  NoRecord = NoRecord
  NoConfig = NoConfig
INVARIANTS TypeOK StatusHasOwner
PROPERTIES JobEnds BootstrapSettles
