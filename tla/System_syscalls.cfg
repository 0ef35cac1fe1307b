SPECIFICATION SysSpec
CONSTANTS
  BITS = 8
  HALF = 128
  WORD_SIZE = 2
  BASE = 16
  MEM_SIZE = 65
  STACK_BASE = 59
  HEAP_BASE = 56
  DATA_BASE = 54
  N_REG = 2
  MaxRegister = 15
  Code <- SyscallProgram
  Data <- NoData
  Entries = {0, 24, 44}
  Garbage = {0}
  INT_HALF = 64
  Input = {1}
  Results = {0, 3}
  MaxRead = 3
  MaxNodes = 9
INVARIANT SysTypeOK
PROPERTIES SysStackBounds BlocksStayDisjoint ProgramIsProtected FailedSyscallsOnlyPop ResetEnds
