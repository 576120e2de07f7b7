SPECIFICATION Spec
CONSTANTS
  AvailablePages = 11
  ReservePages = 2
  HeapPages = 3
  VmemPages = 3
  MaxCommands = 4
INVARIANTS OneOwner CountExact PagesReachOwners BootDelivers AstrayOnlyAfter
 
