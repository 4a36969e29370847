SPECIFICATION Spec
CONSTANTS
  v1 = v1
  v2 = v2
  Depth = 2
  MaxPosted = 2
  MaxSurfaces = 1
  MayRetry = TRUE
  PromptSignal = FALSE
  Clients = {"pointer", "trace"}
  MaxPackets = 3
  MaxFrames = 2
INVARIANTS
  TypeOK
  PlacesAccounted
  OneRequest
  InOrder
PROPERTIES
  ImplementsFifo
  FramesCome
  PacketsArrive
CHECK_DEADLOCK FALSE
