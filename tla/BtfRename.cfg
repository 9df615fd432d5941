\* A type of every kind and three lengths, then two that are renamed or not.
SPECIFICATION Spec
CONSTANTS
  Objects <- MCObjects
  RENAME <- MCRename
INVARIANTS
  TypeOK
  WalkInStep
  StringsApart
  NamesAccepted
  FileIntact
\* the script exits
CHECK_DEADLOCK FALSE
