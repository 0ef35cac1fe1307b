SPECIFICATION Spec
CONSTANTS
  BITS = 10
  HALF = 512
  WORD_SIZE = 2
  BASE = 32
  STACK_BASE = 22
  HEAP_BASE = 19
  DATA_BASE = 16
  MEM_SIZE = 24
  Magic <- MCMagic
  Programs <- MCPrograms
  Strangers <- MCStrangers
INVARIANTS TypeOK WholeUnlessFull LoadsOneImage WholeImageIsLoaded RunsWhatWasWritten
CHECK_DEADLOCK FALSE
