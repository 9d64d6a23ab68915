SPECIFICATION Spec
CONSTANTS
  Hooks = {"h1", "h2"}
  Meanwhile = TRUE
  MaxWrites = 4
INVARIANTS
  NothingLost
CHECK_DEADLOCK FALSE
