CONSTANTS
  Procs = {p1}
  Requests = {r1, e1}
  Events = {e1}
  NoRequest = NoRequest
  MaxRevision = 2
SPECIFICATION Spec
INVARIANTS
  DuplicateIsNotLost
