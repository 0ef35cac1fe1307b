SPECIFICATION LifoSpec
CONSTANTS
  HEAP_BASE = 2
  STACK_BASE = 10
  MinSize = 1
  MaxNodes = 10
  MaxHeld = 8
INVARIANT
  LifoShape
CHECK_DEADLOCK FALSE
