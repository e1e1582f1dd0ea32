CONSTANTS
  a = a
  b = b
  d = d
  f = f
  home = home
  RemoteDir = RemoteDir
  Dot = Dot
  None = None
  Dirs <- MCDirs3
  Files <- MCFiles
  Roots <- MCRoots
  Home <- MCHome
  Tree <- MCDeepTree
  Passive = {TRUE}
  Retries = 1
SPECIFICATION Spec
INVARIANT
  ListingIsAsked
