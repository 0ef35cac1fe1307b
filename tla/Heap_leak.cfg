SPECIFICATION Spec
CONSTANTS
  HEAP_BASE = 2
  STACK_BASE = 6
  MinSize = 1
  MaxNodes = 6
  MaxHeld = 4
INVARIANT
  NoLeak
CHECK_DEADLOCK FALSE
