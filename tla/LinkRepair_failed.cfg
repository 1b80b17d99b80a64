SPECIFICATION Spec
CONSTANTS
  Watched <- MCWatchedOne
  LocalIDs <- MCLocalIDs
  MaxRetry = 2
  Dead = {}
  Flaky = {}
PROPERTY FailsOnlyUnanswered
