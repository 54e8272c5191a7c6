SPECIFICATION KernelSpec
CONSTANTS
  WordSize = 96
  page_size = 4
  user_start = 8
  user_end = 48
  HeaderSize = 2
  EntrySize = 1
  max_ph_segments = 4
  initrd_start = 52
  ArchiveHeader = 4
  ArchiveEntry = 4
  Align = 4
  FileLists <- MCFileLists
  OtherArchives <- MCOtherArchives
  programs <- MCPrograms
INVARIANTS
  AcceptsWellFormed
  ProgramExact
  ArchiveExact
\* Loading ends; the kernel then runs the programs.
CHECK_DEADLOCK FALSE
