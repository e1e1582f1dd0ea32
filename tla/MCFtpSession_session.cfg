CONSTANTS
  a = a
  b = b
  d = d
  f = f
  home = home
  RemoteDir = RemoteDir
  Dot = Dot
  None = None
  Dirs <- MCDirs
  Files <- MCFiles
  Roots <- MCRootsSlash
  Home <- MCHome
  Tree <- MCOpenTree
  Passive = {TRUE, FALSE}
  Retries = 1
SPECIFICATION FairSpec
INVARIANTS
  TypeOK
  DataClosedAtPort
  IdleConnected
  InStep
  AcceptedIsAsked
PROPERTIES
  Terminates
