SPECIFICATION Spec
CONSTANTS
  GlClients = {1, 2}  GlSlots = 2  Sizes = {1, 2}  ByteLimit = 2  MaxEpoch = 2
  BufferNames = 3  MaxBuffers = 2  BufferBytes = 4  BufferBudget = 8
  TableNames = 4  TableSlots = 8  TableLimit = 4  Homes = {0, 6, 7}
  QueryNames = 3  MaxQueries = 2  Ended = 2  MaxStamps = 3  QueryBudget = 5
  ListNames = 5  MaxLists = 2  Nesting = 2  Work = 3  MaxIssued = 2  MaxListImages = 2  ImageLimit = 5
  Vram = 8  Pitch = 4  Quantum = 2  Budgets = {1, 2, 3, 5}
  Regions = {1, 2}  Modes = {"16", "32"}  MaxDesktops = 3  MaxPackets = 4
INVARIANTS
  MemoryAccounted BoundsSound NamesFound RegistrySound SlicesSound
PROPERTIES
  QueriesSound ListsSound DesktopSound
CHECK_DEADLOCK FALSE
