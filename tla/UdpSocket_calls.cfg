SPECIFICATION Spec
CONSTANTS
  h1 = h1
  h2 = h2
  MaxSockets = 2
  Hosts <- MCHosts
  Bad = Bad
  SenderPorts <- MCSenderPorts
  BindArgs <- MCBindArgs
  GroupArgs <- MCGroupArgs
INVARIANTS
  NoSocketLeaked
  BoundIsLastGood
PROPERTIES
  AnswersItsSender
  ThreadServes
