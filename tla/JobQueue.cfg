SPECIFICATION FairSpec
CONSTANTS
  Ids = {i1, i2, i3, i4, i5, i6}
  Users = {u1, u2}
  GlobalLimit = 3
  PerUserLimit = 2
  NoJob = NoJob
INVARIANTS TypeOK LimitsHold OneClaimPerJob NoIdleWaiter
PROPERTIES RotationFindsWork ImplementsSlots EveryWaiterStarts
