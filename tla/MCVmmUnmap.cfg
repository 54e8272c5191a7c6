SPECIFICATION SpecUnmap
CONSTANTS
  N = 4
  FirstKernel = 2
  Rec = 3
  HeapEnd = 10
  Framebuffer = 11
  FirstUser = 3
  LastUser = 4
  page_bytes = 8
  Frames = 9
  Device = 20
  MaxSpace = 2
  MaxCount = 2
  TlbSize = 1
INVARIANTS
  RemapTakesEffect
\* A panic stops the kernel.
CHECK_DEADLOCK FALSE
