SPECIFICATION Spec
CONSTANTS
  PAGE_SIZE = 4
  PMM_START = 8
  PMM_MAX_BYTES = 40
  KERNEL_BYTES = 8
  MemSizes = {11, 14, 26, 40, 60}
  Addresses <- MCAddresses
  Breaks = {0, 7, 12, 40, 41}
INVARIANTS CountExact NoFrameLost
PROPERTIES ImplementsFrameAllocator
