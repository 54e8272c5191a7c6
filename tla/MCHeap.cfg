SPECIFICATION HeapSpec
CONSTANTS
  page_size = 8
  HeapPages = 3
  MaxDiff = 24
  TREEBIN_SHIFT = 2
  NTREEBINS = 4
  SIZE_T_BITSIZE = 6
  TOP_FOOT_SIZE = 1
  trim_threshold = 12
  Requests = {12, 18, 60, 240}
  AlignedRequests = {12}
  Alignments = {4}
  MaxLive = 4
INVARIANTS
  ChunksTile
  MallocStateChecks
  BinsExact
  Backed
PROPERTIES
  BestFit
\* A panic stops the kernel.
CHECK_DEADLOCK FALSE
