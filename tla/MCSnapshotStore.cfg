CONSTANTS
  Procs = {p1, p2}
  Requests = {r1, e1}
  Events = {e1}
  NoRequest = NoRequest
  MaxRevision = 2
SPECIFICATION Spec
SYMMETRY Symmetry
INVARIANTS
  TypeOK
  AcceptedIsDurable
  FreshWriterIsComplete
PROPERTIES
  NoOverwrite
  ImplementsDurableStore
