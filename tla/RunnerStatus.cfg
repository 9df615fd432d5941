\* 256 tests that all fail.
SPECIFICATION Spec
CONSTANTS
  Objects <- BigObject
  OptionLists <- NoOptions
  Answers <- TestsPanic
  Room = 1024
  Statuses = 256
INVARIANT ExitIsFailures
\* the runner exits
CHECK_DEADLOCK FALSE
