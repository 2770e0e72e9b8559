CONSTANTS
  Parts = {"lookup"}
  Requests <- Two
  FailureThreshold = 2
  Cooldown = 2
  ErrorThreshold = 3
  ShedMode = TRUE
  ShedOnOpenCircuit = FALSE
  Events = {e1}
  Pages = {p1}
  MaxItems = 1
SPECIFICATION MCSpec
PROPERTIES
  ShedIsTemporary
