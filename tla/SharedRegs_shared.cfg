\* The parent at both chips, the child at chip 1.
SPECIFICATION Spec
CONSTANTS
  Flows <- MCFlows
  Chips = {0, 1}
  Addrs <- MCAddrs
  Values <- MCValues
  Fail = Fail
  NoCall = NoCall
  Use <- MCUse
  Opened = {0, 1}
PROPERTIES
  ImplementsAtomic
