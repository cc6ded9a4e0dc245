SPECIFICATION Spec
CONSTANTS
  MaxMaps = 2  MaxFrames = 2  MaxLeases = 1  Capacity = 2  MaxSends = 3  MaxSets = 1  MaxBarriers = 2  MaxCursor = 2
  Traffic = {"frames", "input", "resets", "cursor"}  MaxConnects = 2  Room = 1
INVARIANTS
  FramesOwned WorkerWakes InputFaithful
PROPERTIES
  OnlyForwards
CHECK_DEADLOCK FALSE
