\* Every form of memory call over what is kept, every panic over what bears on it.
SPECIFICATION Spec
CONSTANTS
  Arena <- MCArena
  Cases <- AllCases
INVARIANTS
  TypeOK
  EntriesInObject
  RustIsInlined
  MemoryCallsBound
  KfuncsTagged
  CopiesInlined
  NoVoidGlobals
  TrapsReplaced
  ExitFitsKernel
  PanicsAccounted
  KeptStayOutlined
  CookieIsResult
\* the linker exits
CHECK_DEADLOCK FALSE
