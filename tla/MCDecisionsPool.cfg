SPECIFICATION MCSpec
CONSTANTS
  Parts = {"store"}
  a = a
  b = b
  c = c
  d = d
  e = e
  none = none
  blank = blank
  Ids <- MCIds
  NoRoute = none
  Blank = blank
  Graphs <- MCGraphs
  Sentences <- MCSentences
  BranchLists <- MCBranchLists
  NodeLimit = 3
  StepLimit = 4
  DecisionKeys = {"first", "second"}
  Stacks <- MCStacks
  Surface <- MCSurface
  Profiles = {x1, x2}
  MaxChanges = 1
  None = None
  Callers = {r1, r2, r3}
  Kinds = {"approve", "publish", "event"}
  Connections = {c1, c2}
  Drafts = {d1, d2}
  MaxVersion = 2
  Nil = Nil
SYMMETRY Symmetry
CHECK_DEADLOCK FALSE
INVARIANT
  PublishIsTransaction
