SPECIFICATION Spec
CONSTANTS
  PAGE_SIZE = 2
  MAPPING_START = 8
  KERNEL_CHOOSE_START_ADDR = 10
  MAPPING_RESERVE_IN_SIGNAL_START = 16
  FORCE_ALIGNMENT = 4
  DESC_PER_PAGE = 5
  SHMAT_DESC_PER_PAGE = 4
  Threads = {t1, t2}
  StackSize = 2
  FixedAddrs <- MCSome
  HintAddrs <- MCHints
  MmapLengths = {1, 3}
  MunmapAddrs <- MCAll
  MunmapLengths = {3}
  SignalAddrs = {10}
  RemapAddrs <- MCSome
  RemapLengths = {2, 4}
  ShmAddrs = {0}
  ShmLengths = {4}
SYMMETRY MCSymmetry
INVARIANTS ListIsPartition TakesOnlyWhatIsAsked MappedIsTracked DescriptorsConserved
CHECK_DEADLOCK FALSE
