SPECIFICATION Spec
CONSTANTS
  HEAP_BASE = 2
  STACK_BASE = 6
  MinSize = 0
  MaxNodes = 6
  MaxHeld = 4
INVARIANTS
  TypeOK
  Tiling
  HeldIsReserved
PROPERTY
  ImplementsAbstractHeap
CHECK_DEADLOCK FALSE
