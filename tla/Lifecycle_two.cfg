SPECIFICATION Spec
CONSTANTS
  all1 = all1
  app1 = app1
  Configs = {all1}
  AppOnlyConfigs = {}
  LicensedConfigs = {}
  DatabaseConfigs = {all1}
  Folders = {f1}
  Clients = {c1, c2}
  Calls <- TwoAtATime
  Workers = {w1, w2}
  MaxPolls = 2
  MaxRestarts = 0
  NoRecord = NoRecord
  NoConfig = NoConfig
SYMMETRY Symmetry
INVARIANTS OneTerraform JobHasRecord
PROPERTIES DestroyedMeansGone
