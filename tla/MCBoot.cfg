SPECIFICATION Spec
CONSTANTS
  N = 8
  FirstKernel = 4
  Rec = 6
  va_kernel_stack = 60
  StackPages = 2
  page_directory = 2
  page_table_0 = 3
  page_table_768 = 4
  page_table_1023 = 5
  kernel_stack = 6
  kernel_lma = 8
  page_size = 2
  Images <- MCImages
  FreeRuns <- MCFreeRuns
  width = 3
  height = 2
  maxw = 3
  maxh = 2
  cw = 1
  ch = 2
  text_frame = 1
  video_frame = 40
  video_pages = 2
  va_framebuffer = 40
  video_w = 4
  video_h = 5
  Cmdlines <- MCCmdlines
  Videos = {"text", "rgb", "odd"}
  Texts <- MCTexts
  MaxIrqs = 2
  MaxPrints = 2
INVARIANTS
  InitExact
  ShowsTail
  NoWildAccess
  Heard
PROPERTIES
  BootsWithSerial
\* A boot that hangs or panics has ended; programs print a bounded number of times.
CHECK_DEADLOCK FALSE
