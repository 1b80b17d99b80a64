\* Files of up to three lines; the look-up ends.
SPECIFICATION LookUpSpec
CONSTANTS
  none = none
  NoFile = none
  Files <- MCFiles
  Boards <- MCBoards
  Junk = 99
CHECK_DEADLOCK FALSE
INVARIANTS
  LookUpCorrect
  DefaultIsOwn
