SPECIFICATION Spec
CONSTANTS
  Depth = 2
  Views = {v1}
  v1 = v1
  MaxNumber = 2
  MaxPosted = 2
  MaxSurfaces = 1
  Waits = TRUE
  MayRetry = FALSE
  PromptSignal = TRUE
PROPERTY FirstFrameWakes
