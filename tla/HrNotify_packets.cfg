\* Three boards: one behind a chip that works, one behind a chip that works
\* now and then, and one without a port.
SPECIFICATION FairSpec
CONSTANTS
  Boards <- MCBoards
  SlotBytes = {2, 13}
  SliceBytes = {0, 4, 5}
  Dead = {}
  Flaky = {1}
  MaxReboot = 0
INVARIANTS
  ReadyCountExact
  PortFollowsRegister
  StoppedLinkQuiet
  AckMeansDone
  RestoredPortUp
PROPERTIES
  ThreadServes
  ImplementsRegistry
