SPECIFICATION Spec
CONSTANTS
  None = None
  Fences = {f1, f2}
  DeviceLoss = TRUE
  Recorders = {raster, io}
  Pools = {p1, p2}
  Threads = {raster, io}
  Handles = {h1, h2}
  Operations = {o1, o2, o3}
  Decodes = {"d1", "d2"}
  Encodes = {"e1", "e2"}
  Snapshots = {"s"}
  kMaxTasksAwaitingGPU = 2
  Dies = TRUE
INVARIANTS
  TypeOK
  HeldIsTracked
  UsedByOne
  NoSelfJoin
  OperationsFindHandles
  DeletedOnce
  NotUsedInBackground
PROPERTY
  ShutdownReturns
CHECK_DEADLOCK FALSE
