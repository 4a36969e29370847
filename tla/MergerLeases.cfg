SPECIFICATION Spec
CONSTANTS
  Mergers = {"a", "b"}
  ViewShells = {"a", "b"}
  LeaseTerm = 10
  Calls = {"create"}
  Resizing = FALSE
  MaxQueue = 2
INVARIANTS LeaseIsPositive
CHECK_DEADLOCK FALSE
