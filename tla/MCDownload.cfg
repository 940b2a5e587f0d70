SPECIFICATION FairSpec
CONSTANTS
  a = a  b = b  c = c
  x = x  y = y
  Names <- ThreeNames
  Blocks = {x, y}
  Contents <- FourVersions
  InitialFiles <- SomeFiles
  LocalFiles <- OneFile
  Expected = 2
  Capacity = 2
  MaxExchanges = 1
  MaxSyncs = 2
  Faults = {"coalesce", "crash"}
INVARIANTS
  TypeOK
  SendsOneMoment
  NoHalfFiles
  FilesAreNoAnswers
PROPERTIES
  ServerGetsAway
  ClientGetsAway
CHECK_DEADLOCK FALSE
