\* A kept function that returns an integer and panics, in mode ret.
SPECIFICATION Spec
CONSTANTS
  Arena <- MCArena
  Cases <- KeptPanics
INVARIANTS
  CookieLeavesProgram
\* the linker exits
CHECK_DEADLOCK FALSE
