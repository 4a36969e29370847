SPECIFICATION MCSpec
CONSTANTS
  Users = {"user1"}
  MockUser = "mock"
  Bodies = {"b1", "b2"}
  Seeds <- OneSeed
  NoAdoption = NoAdoption
  Filters = {"disponible"}
  Targets = {"en proceso"}
  Decisions = {"aprobada"}
  MaxPending = 3
  MaxCreated = 2
  SameInstant = TRUE
INVARIANTS TypeOK LoadingHasOwner ListMirrorsStore SelectedIsReal LatestLoadWins ListAligned
PROPERTIES ImplementsBoard
