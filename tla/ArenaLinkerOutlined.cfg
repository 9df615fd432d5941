\* libarena and the O2 inliner, VOID_GLOBALS at its default.
SPECIFICATION Spec
CONSTANTS
  Arena <- MCArena
  Cases <- DefaultCases
INVARIANTS
  ArenaStaysOutlined
\* the linker exits
CHECK_DEADLOCK FALSE
