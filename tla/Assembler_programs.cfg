SPECIFICATION Spec
CONSTANTS
  BITS = 12
  HALF = 2048
  WORD_SIZE = 2
  BASE = 64
  DATA_BASE = 100
  SYMBOLS = 2
  SYMBOL_BYTES = 4
  Pointers <- MCPointers
  Programs <- MCPrograms
INVARIANTS TypeOK PassesAgree WritesFit ImageIsWhole AcceptsWellFormed AssembledRight
