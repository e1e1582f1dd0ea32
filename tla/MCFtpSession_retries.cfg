CONSTANTS
  a = a
  b = b
  d = d
  f = f
  home = home
  RemoteDir = RemoteDir
  Dot = Dot
  None = None
  Dirs <- MCDirs
  Files <- MCFiles
  Roots <- MCRoots
  Home <- MCHome
  Tree <- MCOpenTree
  Passive = {TRUE}
  Retries = 1
SPECIFICATION Spec
INVARIANT
  RetriesAsDocumented
