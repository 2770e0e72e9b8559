CONSTANTS
  Parts = {"requests"}
  Clients = {c1, c2}
  Handlers = {h1, h2}
  Profiles = {p1}
  Defs = {d1, d2}
  Assets = {a1, a2}
  MaxVersion = 2
  MaxImpressions = 2
  Scope = "profile"
  Calls = {x1, x2}
  MaxClients = 2
  MaxInits = 1
  MaxPublished = 1
  Configurations <- EveryTrigger
  r1 = r1
  r2 = r2
  r3 = r3
  EvaluateRequests = {r1}
  EventRequests = {r2, r3}
  EventId <- OneEvent
  Edits = {s1, s2}
  MaxPerWindow = 1
  MaxRuns = 2
SPECIFICATION MCSpec
CHECK_DEADLOCK FALSE
PROPERTIES
  LimitOnlyRefuses
