SPECIFICATION FairSpec
CONSTANTS
  d1 = d1  d2 = d2  NoDomain = none
  Domains <- TwoStreams
  Pending = 2  DoneSlots = 2  FaultSlots = 1  MaxBatches = 3  MaxGeneration = 2
INVARIANTS
  TypeOK CompletesInOrder NothingLost AckSeparates DomainStaysFailed
PROPERTIES
  Answered
