CONSTANTS
  MaxWords = 3
  MaxRows = 2
  Lines <- MCLines
  Files <- MCFiles
  Number <- MCNumber
  Urls <- MCUrls
  Percent <- MCPercent
  IntMax = 511
  Environ = Environ
  None = None
  p1 = p1
  p2 = p2
  p3 = p3
  Nobody = Nobody
  Procs <- MCProcs
  Kills = TRUE
  CallsFail = TRUE
SPECIFICATION MCFairSpec
INVARIANTS
  TypeOK
  LastWins
  AllCollected
  WarnsOverrides
  LockTypeOK
  MutualExclusion
  OnlyOwnLockRemoved
  HoldersOwn
  LockNotLeft
PROPERTIES
  LockFreed
