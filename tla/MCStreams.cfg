SPECIFICATION Spec
CONSTANTS
  d1 = d1  d2 = d2  c1 = c1  c2 = c2
  NoDomain = none  NoFault = free
  Domains <- TwoStreams  Clients <- OneClient  ClientOf <- SameOwner
  Depth = 3  Buffers = 2  Pending = 3  DoneSlots = 3
  FaultSlots = 2  TableSlots = 2
  MaxBatches = 3  MaxGeneration = 0
  Kinds = {"open", "submit", "close"}
  Refusals = FALSE  Impatient = FALSE
SYMMETRY Alike
INVARIANTS
  FailuresTold BatchesKept
