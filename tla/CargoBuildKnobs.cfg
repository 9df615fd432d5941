\* What the linker reads from the environment, cargo does not watch.
SPECIFICATION Spec
CONSTANTS
  Vars <- MCVars
  None = None
  Cut = Cut
  NoTree = NoTree
  CutFile = CutFile
  Envs <- MCEnvs
  Trees <- MCTrees
  Kernels <- OneKernel
  MaxChanges = 1
INVARIANT KnobsHonoured
