\* Two boards, one of them behind a chip that fails every access.
SPECIFICATION FairSpec
CONSTANTS
  Watched <- MCWatched
  LocalIDs <- MCLocalIDs
  MaxRetry = 2
  Dead = {1}
  Flaky = {}
PROPERTY ResetIsRepaired
