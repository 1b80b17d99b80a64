\* Two boards, chips that always answer.
SPECIFICATION Spec
CONSTANTS
  Watched <- MCWatched
  LocalIDs <- MCLocalIDs
  MaxRetry = 2
  Dead = {}
  Flaky = {}
INVARIANTS
  NothingForgotten
  NoPacketsWhileConfigured
  MaintenanceReaches
  OpenMeansRouted
  AckidStaysReset
PROPERTIES
  ImplementsCycle
