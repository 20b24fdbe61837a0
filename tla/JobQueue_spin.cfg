SPECIFICATION FairSpec
CONSTANTS
  Ids = {i1, i2, i3, i4, i5}
  Users = {u1, u2}
  GlobalLimit = 3
  PerUserLimit = 1
  NoJob = NoJob
PROPERTY DispatchReturns
