SPECIFICATION MCSpec
CONSTANTS
  Users = {"user1"}
  MockUser = "mock"
  Bodies = {"b1"}
  Seeds <- OneSeed
  NoAdoption = NoAdoption
  Filters = {}
  Targets = {"en proceso"}
  Decisions = {"aprobada"}
  MaxPending = 2
  MaxCreated = 0
  SameInstant = FALSE
INVARIANTS SelectedMirrorsStore
