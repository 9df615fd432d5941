\* Two programs, their calls interleaved byte by byte.
CONSTANTS
  Progs = {p1, p2}
  Size = 3
  Radix = 2
  Fills <- MCFills
  StartMems <- MCStartMems
SPECIFICATION FairSpec
INVARIANTS TypeOK IInv WholeEffect NoMangledByte CompareIsOrder
PROPERTIES ImplementsMemCalls EveryCallReturns
