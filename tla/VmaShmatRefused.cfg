SPECIFICATION Spec
CONSTANTS
  PAGE_SIZE = 2
  MAPPING_START = 6
  KERNEL_CHOOSE_START_ADDR = 8
  MAPPING_RESERVE_IN_SIGNAL_START = 16
  FORCE_ALIGNMENT = 4
  DESC_PER_PAGE = 5
  SHMAT_DESC_PER_PAGE = 4
  Threads = {}
  StackSize = 2
  FixedAddrs <- MCAll
  HintAddrs <- MCHints
  MmapLengths = {1, 3}
  MunmapAddrs <- MCAll
  MunmapLengths = {2, 3}
  SignalAddrs = {}
  RemapAddrs = {}
  RemapLengths = {2, 4}
  ShmAddrs <- MCSome
  ShmLengths = {2}
INVARIANT TakesOnlyWhatIsAsked
CHECK_DEADLOCK FALSE
