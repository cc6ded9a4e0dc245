SPECIFICATION Spec
CONSTANTS
  d1 = d1  d2 = d2  c1 = c1  c2 = c2
  NoDomain = none  NoFault = free
  Domains <- OneStream  Clients <- OneClient  ClientOf <- OneEach
  Depth = 2  Buffers = 2  Pending = 2  DoneSlots = 2
  FaultSlots = 1  TableSlots = 1
  MaxBatches = 2  MaxGeneration = 1
  Kinds = {"open", "submit", "kernel"}
  Refusals = TRUE  Impatient = TRUE
INVARIANTS
  PageSound OutcomeTruth HeadOwned CoherentStops NoLostWakeup
