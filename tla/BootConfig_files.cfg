\* One setting besides the default; ports whose errors come and go, or stay.
SPECIFICATION Spec
CONSTANTS
  None = None
  Empty = Empty
  DelaySettings <- MCDelaySettings
  SlotNum = 6
INVARIANTS
  SpeedAsSaved
  SettingsKept
  EnumeratedAsAsked
PROPERTIES
  MenuReached
