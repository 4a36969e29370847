SPECIFICATION Spec
CONSTANTS
  Users = {"user1"}
  MockUser = "mock"
  Bodies = {"b1"}
  NoAdoption = NoAdoption
  Screens = {"s1", "s2"}
  Requests = {"r1"}
  NoRequest = NoRequest
  MaxPending = 2
  MaxRoutes = 4
  MaxCreated = 1
INVARIANTS
  TypeOK
  FrontIsRight
PROPERTIES
  SpinnersEnd
  ApprovalCompletes
CHECK_DEADLOCK FALSE
