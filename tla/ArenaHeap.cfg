\* Two programs that share an arena, two allocations each: who owns which block, and what the objects contain.
CONSTANTS
  Progs = {p1, p2}
  Handles = {h1, h2}
  New = New
  Nothing = Nothing
  Null = Null
  Target = "bpf"
  Size = 3
  Radix = 2
  Fills = {0}
  BlockSizes = {1, 2}
  HostAlign = 1
  Layouts <- MCLayouts
  RawSizes = {1}
SYMMETRY MCSymmetry
SPECIFICATION Spec
INVARIANTS IInv HelpersUsedWell
PROPERTIES ImplementsHeapObjects UsesMemCalls
