SPECIFICATION Spec
CONSTANTS
  SectorSize <- MCSectorSize
  OpenLength <- MCOpenLength
  Unwritten <- MCUnwritten
  ReadBuffer <- MCReadBuffer
  LogLengths <- MCLogLengths
  EraseResults = {TRUE, FALSE}
  WriteResults = {TRUE, FALSE}
INVARIANTS
  NeverProgrammedTwice
  AbortedLogKept
  ShownIsLogged
