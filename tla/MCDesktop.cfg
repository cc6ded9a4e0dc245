SPECIFICATION Spec
CONSTANTS
  d1 = d1  d2 = d2  d3 = d3  d4 = d4
  Drawable <- FourNames  MaxDrawables = 1  ExportSlots = 1  CpuSlots = 1  Sizes = {1}
  DesktopCredits = 2  MaxEpoch = 4  MaxGeneration = 1
  MaxPending = 2  MaxSlots = 3  ReleaseCapacity = 4
  Images = {"frame", "retained"}
  Ops = {"seed", "patch", "return", "paint", "blit", "discard", "readback", "drop", "reset"}
  MaxOps = 3  Hangups = FALSE
CONSTRAINT TwoGuests
INVARIANTS
  NeverRefused NothingStale
PROPERTIES
  CanvasAccepts ExchangesBuffers
CHECK_DEADLOCK FALSE
