CONSTANTS
  Decodes = {"d1"}
  Encodes = {"e1"}
  Snapshots = {}
  kMaxTasksAwaitingGPU = 2
  Dies = FALSE
SPECIFICATION Spec
INVARIANT NothingStranded
