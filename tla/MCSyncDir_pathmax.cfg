CONSTANTS
  Names <- MCNames
  Depth = 2
  LocalTrees <- MCLocal
  RemoteTrees <- MCRemote
  Skip <- MCNoSkip
  Blank <- MCBlank
  PathMax = 5
  Params <- MCDelete
SPECIFICATION Spec
INVARIANT
  InItsDirectory
