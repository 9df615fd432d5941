\* Three links of two programs, at once or after one another, over what is left.
SPECIFICATION Spec
CONSTANTS
  Outputs = {"p", "q"}
  Lines <- MCLines
  Disks <- MCDisks
  Bitcode <- MCBitcode
  None = None
  NoObject = NoObject
  MaxLinks = 3
INVARIANTS TypeOK ArgsRecovered MembersOnce
PROPERTY ImplementsLinkOutput
