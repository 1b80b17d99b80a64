SPECIFICATION Spec
CONSTANTS
  FlowSets <- MCFlowSets
INVARIANTS
  ClosedForAReason
  StoppedUnlessRepaired
  OneSpeed
  MaintenanceLeavesNoTrace
PROPERTIES
  FlowsReturn
