SPECIFICATION Spec
CONSTANT Keys <- MCKeys
INVARIANTS
  LabelWasTyped
PROPERTIES
  ImplementsLock
