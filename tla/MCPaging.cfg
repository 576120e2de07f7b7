SPECIFICATION Spec
CONSTANTS
  PoolStart = 1
  PoolEnd = 7
  KVMEM_LAST = 5
  MaxPages = 2
INVARIANTS FramesPartitioned KernelIntact FreshTablesReachable
PROPERTIES ProtectionHolds
