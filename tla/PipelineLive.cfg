SPECIFICATION AllSpec
CONSTANTS
  Ids = {"d1", "d2"}
  Handlers = {"h1", "h2"}
  Events = {"opened", "closed", "merged", "pushed", "deleted", "requested", "destroyed"}
  MaxCrashes = 1
INVARIANTS
  OneHandlerPerDelivery
  EventNotLost
PROPERTIES
  WorkEnds
  ChecksComplete
CHECK_DEADLOCK FALSE
