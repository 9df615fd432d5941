\* Builds with up to two changes, interruptions or edits between and during them.
SPECIFICATION Spec
CONSTANTS
  Vars <- MCVars
  None = None
  Cut = Cut
  NoTree = NoTree
  CutFile = CutFile
  Envs <- MCEnvs
  Trees <- MCTrees
  Kernels <- MCKernels
  MaxChanges = 2
INVARIANTS TypeOK IncrementalIsClean TreeIsSnapshot ArchiveWhole
