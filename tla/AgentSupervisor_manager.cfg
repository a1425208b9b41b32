SPECIFICATION Spec
CONSTANTS
  Indexes = {1}
  MaxOps = 1
  MaxFaults = 1
  MaxBeats = 1
  MaxOrders = 1
INVARIANTS TypeOK CommandsAreKept LoadsAreAsked
PROPERTIES UnwantedIsUnloaded LoadedIsWanted
CHECK_DEADLOCK FALSE
