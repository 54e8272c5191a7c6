SPECIFICATION MCSpec
CONSTANTS
  Thing = {t1, t2, t3, t4, t5}
  Cap = 3
  null_item = null_item
  Word = 1048576
  Pointer = 8
  Ull = 64
  nullptr = nullptr
  Space <- MCSpace
  AddressSize = 64
  MemoryTop = 16
  InfoSize = 4
  max_bootloader_name = 3
  max_cmdline = 6
INVARIANTS
  RingInv
  OwnedOnce
  FmtExact
  FlagsExact
  PciExact
  TypeListsExact
PROPERTIES
  ImplementsFifo
\* The queue may fail or be destroyed, and a call is made once.
CHECK_DEADLOCK FALSE
