SPECIFICATION Spec
CONSTANTS
  First = "home"
  Menu = {"list", "adoptionForm", "reportForm"}
  MaxRoutes = 4
  MaxPending = 3
  MaxCreated = 1
PROPERTIES ReturnsToPrevious
CHECK_DEADLOCK FALSE
