CONSTANTS
  Months = 3
  Days = 2
  Ticks = 2
  Years = 2
  MaxChanges = 1
  Skews <- MCSkews
  Entries <- MCEntries
  Layouts = {"group", "ids", "nogroup", "nolinks"}
  None = None
  Dirs <- MCDirs
  FileEntries <- MCFileEntries
  Paths <- MCPaths
  MaxExprs = 1
  NoEntry = NoEntry
  Elems = {a, b}
  Nothing = Nothing
  Chunk = 2
  Width = 16
  MaxItems = 9
  Interleaved = FALSE
  HeapKeys = {1, 2, 3, 4}
  HeapChunk = 2
  MaxHeap = 8
  ClElems = {1, 2, 3}
  MaxNodes = 4
  MapKeys = {0, 1, 2}
  MaxHash = 4
  MaxSkip = 3
  HashSize = 2
  MaxLevel = 2
  NilKey = 3
SPECIFICATION MCSpec
INVARIANTS
  RowUnderstood
  FetchedOnce
  ChangeSeen
  TreatedAsDocumented
  NothingElseSkipped
  IndicesInBuffer
  Contiguous
PROPERTIES
  IsQueue
  HeapIsPriorityQueue
  RingIsList
  HashIsMultimap
  SkipListIsMultimap
