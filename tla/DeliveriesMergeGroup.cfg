SPECIFICATION Spec
CONSTANTS
  d1 = d1
  h1 = h1
  Ids = {d1}
  Handlers = {h1}
  Events = {"requested"}
  MaxCrashes = 1
SYMMETRY Symmetry
CHECK_DEADLOCK FALSE
INVARIANTS
  MergeGroupNotLost
