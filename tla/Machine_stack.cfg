SPECIFICATION Spec
CONSTANTS
  BITS = 6
  HALF = 32
  WORD_SIZE = 2
  BASE = 8
  MEM_SIZE = 30
  STACK_BASE = 24
  HEAP_BASE = 22
  DATA_BASE = 20
  N_REG = 2
  MaxRegister = 15
  Code <- StackProgram
  Data <- NoData
  Entries = {0}
  Garbage = {0}
INVARIANT StackBounds
PROPERTIES PushesInTheStack ImplementsBoundedStack
