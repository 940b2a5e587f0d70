SPECIFICATION FairSpec
CONSTANTS
  a = a  b = b  d = d
  x = x  y = y
  Dir = dir
  Names <- ThreeNames
  Paths <- SomePaths
  Versions <- TwoVersions
  NameOrder <- Order
  MaxEntries = 2
  Blocks = {x, y}
  ServerOrder <- Order
  ClientOrder <- OtherOrder
  InitialDirs <- SomeDirs
  InitialFiles <- SomeFiles
  DirectorySizes <- Sizes
  Flags = {TRUE, FALSE}
  Edits = {"replace", "inplace", "delete", "mkdir"}
  MaxEdits = 2
  Crashes = TRUE
INVARIANTS
  TypeOK
  WaitsHaveCause
  EndHasCause
  StoresWhatWasOpened
  MirrorsLastComponents
  RemovalsDoNotThrow
  ComparisonIsExact
  AgreesOnFlatTrees
PROPERTIES
  GetsAway
CHECK_DEADLOCK FALSE
