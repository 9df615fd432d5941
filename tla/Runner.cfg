\* Every object of up to four programs, options that just do or do not fit.
SPECIFICATION Spec
CONSTANTS
  Objects <- MCObjects
  OptionLists <- MCOptionLists
  Answers <- MCAnswers
  Room = 12
  Statuses = 256
INVARIANTS
  TypeOK
  ZeroMeansAllPassed
  ResetThenInOrder
  OptionsWhole
\* the runner exits
CHECK_DEADLOCK FALSE
