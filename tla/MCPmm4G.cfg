SPECIFICATION PmmSpec
CONSTANTS
  bits_per_entry = 4
  size = 4
  page_size = 2
  lowest_usable_address = 4
  bootstrap_lma = 4
  kernel_image_size = 3
  MaxPages = 6
  MemoryMaps <- MCMemoryMapsTo4G
INVARIANTS
  GrantsInside
