SPECIFICATION Spec
CONSTANTS
  platform = platform
  raster = raster
  kUnmerged = kUnmerged
  MaxTime = 1
  MaxMerges = 2
  MaxTasks = 3
  Workers = {w1, w2}
  Clients = {client}
  Mergers = {a, b}
  only = a
  LeaseTerm = 2
INVARIANTS
  TypeOK
  MergesAgree
  WokenInTime
  PausesAreResumed
  SleepersAreWoken
  QueuesFollowLeases
PROPERTIES
  StartsInOrder
  HeldWhileDisabled
CHECK_DEADLOCK FALSE
