SPECIFICATION TestSpec
CONSTANTS
  PAGE_SIZE = 64
  KVMEM_START = 64
  KVMEM_END = 319
  MAGIC_ALLOCATED = 9001
  MAGIC_FREED = 9002
  Word = 384
  Residue <- MCResidue
  Frames = 3
  Sizes = {3, 48, 256, 310, 380}
  Pointers <- MCPointers
  Breaks = {130, 320}
  Values = {7}
  Tests <- MCTests
INVARIANTS ListSound LiveExact FreeDetection CapacityInitialised OneFramePerPage
PROPERTIES CallsReturn ImplementsAllocator
