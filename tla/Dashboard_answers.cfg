SPECIFICATION Spec
CONSTANTS
  c1 = c1
  c2 = c2
  NoPanel = NoPanel
  AnyLevel = AnyLevel
  MAX_SIZE = 2
  Limit = 2
  Levels = {"INFO", "WARN"}
  Buttons = {"WARN"}
  LevelOf <- MCLevelOf
  Connections = {c1, c2}
  MaxLines = 3
  MaxClears = 1
  MaxAsks = 2
  MaxFailures = 1
INVARIANTS
  AnswersTheQuestion
CHECK_DEADLOCK FALSE
