CONSTANTS
  Names <- MCNames
  Depth = 2
  LocalTrees <- MCLocal
  RemoteTrees <- MCRemote
  Skip <- MCSkip
  Blank <- MCBlank
  PathMax = 64
  Params <- MCParams
  Chunks = 2
  Versions = 2
  Runs = 2
  Retries = 1
  Deleting = {TRUE, FALSE}
  Limit = 1
  NoFile = NoFile
  Now = Now
SPECIFICATION MCFairSpec
INVARIANTS
  Mirrored
  InItsDirectory
  DeletesBounded
  CurrentIsWhole
  CurrentIsOneVersion
PROPERTIES
  NothingDeleted
  WantedKept
  SkippedKept
  Terminates
  ReplacedByWhole
  RunEnds
