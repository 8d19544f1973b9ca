SPECIFICATION PlatformSpec
CONSTANTS
  MaxSlot = 3
  MB = 4
  PCIE_MAX_BUS = 12
  BAR64_VAL = 1024
  BAR32NP_VAL = 64
  BAR32P_VAL = 256
  RP_BAR64_VAL = 2048
  RP_BAR32_VAL = 512
  ListVariants <- MCListVariants
  W = 64
  TableWords = 60
  Word = 4
  MaxTrace = 7
  CellBase = 128
  RdFrame = 4
  Stride = 4
  MaxEntry = 3
  NoIndex = 2
  PciMaxDevice = 2
  BarFlags = 16
  HeapBase = 16
  HeapSize = 24
  Uint32 = 8
  PLATFORM_PAGE_SIZE = 4
INVARIANTS
  EnumerationIsRight HierarchyIsKnown 
  IoTablesAreRight 
     MapAndPeripheralsAreRight BlocksAreApart
   PortsAreRight
CHECK_DEADLOCK FALSE
