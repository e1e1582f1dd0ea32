CONSTANTS
  Names <- MCNames
  Depth = 2
  LocalTrees <- MCLocal
  RemoteTrees <- MCRemote
  Skip <- MCNoSkip
  Blank <- MCDirs
  PathMax = 64
  Params <- MCDelete
SPECIFICATION Spec
INVARIANT
  CompleteMirror
