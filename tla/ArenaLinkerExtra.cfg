\* KEEP_EXTRA and a function that returns nothing.
SPECIFICATION Spec
CONSTANTS
  Arena <- MCArena
  Cases <- CallCases
INVARIANTS
  ExtraStaysGlobal
\* the linker exits
CHECK_DEADLOCK FALSE
