SPECIFICATION Spec
CONSTANTS
  total_clusters = 5
  Slots = 2
  ShortNames <- Short
  FilePaths <- Files
  Copies <- Copied
  DirPaths <- Dirs
  CdPaths <- Entered
  Contents <- FewContents
  MaxWrites = 14
  MaxAstray = 3
  MaxDepth = 1
VIEW Observed
CHECK_DEADLOCK FALSE
INVARIANTS
  StorageSound
PROPERTIES
  OthersSurvive
  WrittenIsRead
  NewNamesComplete
  LeaksReported
