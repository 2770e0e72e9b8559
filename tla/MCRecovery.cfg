CONSTANTS
  Parts = {"lookup", "queue"}
  Requests <- Three
  FailureThreshold = 2
  Cooldown = 2
  ErrorThreshold = 3
  ShedMode = FALSE
  ShedOnOpenCircuit = FALSE
  Events = {e1, e2}
  Pages = {p1, p2}
  MaxItems = 1
SPECIFICATION MCSpec
INVARIANTS
  TypesOK
  StatusTracksFailures
  QueuedNotLost
PROPERTIES
  CircuitRecovers
  QueueDrains
