SPECIFICATION MCSpec
CONSTANTS
  l1 = l1
  l2 = l2
  n1 = n1
  n2 = n2
  n3 = n3
  Heads = {l1, l2}
  Nodes = {n1, n2, n3}
  Null = Null
  None = None
  r1 = r1
  r2 = r2
  Procs = {r1, r2}
  Names = {"p"}
  SmallSizes = {16}
  BigSize = 8
  BigMax = 2
  Requests = {3, 9}
  PageSize = 16
  MaxPools = 2
  MaxAsked = 2
  MaxPermanent = 0
  MaxFailures = 1
  BlockSizes = {40, 64}
  Sizes = {3, 9, 40}
  Aligns = {1, 8}
  BlockHeader = 16
  BigNote = 16
  FreeNote = 24
  Pointer = 8
  MaxMemory = 6
  MaxPieces = 4
  Types <- SomeTypes
  Options <- SomeOptions
  Programs <- SomePrograms
  RootType = "conf"
  Roots = {1, 2}
  MaxParses = 2
  BufferSizes = {5, 9, 30}
  Scalars <- SomeScalars
  MemberKey <- NameKey
  MaxDepth = 3
  MaxItems = 4
  Rate = 2
  Burst = 3
  Costs = {0, 1, 3}
  Start = 2
  MaxNow = 4
  MaxChecks = 4
  Seconds = {100, 101, 107}
  Offsets <- SomeOffsets
  Minute = 3
  NoText = NoText
  IPv4 = {"1.1"}
  IPv6 = {"::1", "::2"}
  AnyIP = "any"
  Paths <- SomePaths
  Ports = {0, 8, 80, 65535}
  Ten = 10
  MaxPort = 65535
  PathRoom = 3
  IPWidth = 3
  TextRooms = {3, 6, 7, 20}
  Bytes = {0, 1, 77, 255}
  MaxBytes = 5
SYMMETRY Symmetry
INVARIANTS
  ParsedAndRefused
  Separate
  DestroyFreesAll
  ListsChained
  MemoryShared
  NamesGo
  DumpedAsBuilt
  GrantedAsEarned
  TextIsOfTime
  
PROPERTIES
  IterMeetsAll
CHECK_DEADLOCK FALSE
