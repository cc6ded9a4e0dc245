SPECIFICATION Spec
CONSTANTS
  d1 = d1  d2 = d2  d3 = d3  d4 = d4
  Drawable <- OneDrawable  MaxDrawables = 1  ExportSlots = 1  CpuSlots = 2  Sizes = {1}
  DesktopCredits = 2  MaxEpoch = 1  MaxGeneration = 1
  MaxPending = 2  MaxSlots = 1  ReleaseCapacity = 4
  Images = {}  Ops = {"seed", "return"}  MaxOps = 3  Hangups = FALSE
INVARIANTS
  OlderReturnKeepsDesktop
CHECK_DEADLOCK FALSE
