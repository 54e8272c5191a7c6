SPECIFICATION MCSpec
CONSTANTS
  bits_per_entry = 4
  size = 4
  page_size = 2
  lowest_usable_address = 4
  bootstrap_lma = 4
  kernel_image_size = 3
  MaxPages = 5
  MemoryMaps <- MCMemoryMaps
  N = 4
  FirstKernel = 2
  Rec = 3
  HeapEnd = 10
  Framebuffer = 11
  FirstUser = 3
  LastUser = 4
  page_bytes = 8
  Frames = 9
  Device = 20
  MaxSpace = 2
  MaxCount = 2
  TlbSize = 1
INVARIANTS
  PmmInv
  FirstFit
  RecursiveExact
  KernelShared
  OneUse
  TlbCoherent
PROPERTIES
  ImplementsFrames
  ImplementsAddressSpaces
\* A panic stops the kernel.
CHECK_DEADLOCK FALSE
