SPECIFICATION FairSpec
CONSTANTS
  d1 = d1  d2 = d2  d3 = d3  d4 = d4
  Drawable <- OneDrawable  MaxDrawables = 1  ExportSlots = 2  CpuSlots = 0  Sizes = {1}
  DesktopCredits = 1  MaxEpoch = 2  MaxGeneration = 1
  MaxPending = 1  MaxSlots = 2  ReleaseCapacity = 3
  Images = {"frame", "window"}  Ops = {"drop"}  MaxOps = 2  Hangups = TRUE
INVARIANTS
  PublicationSound
PROPERTIES
  Returned SleeperWakes
CHECK_DEADLOCK FALSE
