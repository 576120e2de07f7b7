SPECIFICATION TestSpec
CONSTANTS
  KHEAP_START = 8
  KHEAP_SIZE = 64
  MAGIC_ALLOCATED = 9001
  MAGIC_FREED = 9002
  Word = 80
  Residue <- MCResidue
  Sizes = {3, 78}
  Pointers <- MCPointers
  Breaks = {40}
  Values = {7}
  Capacities = {8}
  Tests <- MCTests
INVARIANTS Tiling LiveExact OomJustified SizeHonoured FreeDetection
PROPERTIES Coalesced PayloadUntouched CallsReturn ImplementsAllocator TestsLeaveNoTrace
