CONSTANTS
  Names <- MCNames
  Depth = 2
  LocalTrees <- MCLocal
  RemoteTrees <- MCRemote
  Skip <- MCSkip
  Blank <- MCBlank
  PathMax = 64
  Params <- MCDelete
SPECIFICATION Spec
PROPERTY
  SkippedNotTouched
