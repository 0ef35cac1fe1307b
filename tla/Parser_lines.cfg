SPECIFICATION Spec
CONSTANTS
  BITS = 12
  HALF = 2048
  WORD_SIZE = 2
  BASE = 64
  Files <- MCFiles
  INSTR_LEN = 10
  PROG_SIZE = 2
INVARIANT UnknownLinesAreRefused
