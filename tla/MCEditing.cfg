CONSTANTS
  Parts = {"console", "builder", "assistant", "campaigns"}
  Items = {A, B}
  Handlers = {h1, h2}
  MaxEdits = 1
  MaxSaves = 1
  MaxStarts = 3
  None = None
  Strings = {"", " ", "k1", "k2", "other", "red", " red", "0", "7", " 7", "true", "false", "null"}
  Inputs = {"k1", "k2"}
  Bare <- MCBare
  Spaced <- MCSpaced
  Numerals <- Digits
  Zero = "0"
  Conditions <- MCConditions
  Typed <- MCTyped
  TypedDrafts <- MCTypedDrafts
  Visitors <- MCVisitors
  Absent = Absent
  PlanKeys = {k1}
  PlanMessages = {m1}
  Contents = {c1, c2}
  MaxActions = 2
  MaxCalls = 4
  Missing = Missing
  RuleIds = {"rule", "rule_copy"}
  MessageIds = {"hero", "Hero", "hero_copy"}
  CopyId <- MCCopyId
  Campaigns = {"Unassigned", "spring"}
  MaxRequests = 2
  NoAsset = NoAsset
SPECIFICATION Spec
SYMMETRY Symmetry
CHECK_DEADLOCK FALSE
INVARIANTS
  TypesOK
  TextStaysWithItem
  
  ConfirmedIsDone
PROPERTIES
  SavingUntouchedKeepsOutcome
  RollbackRestores
