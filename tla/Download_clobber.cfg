CONSTANTS
  Chunks = 2
  Versions = 2
  Runs = 2
  Retries = 1
  Deleting = {FALSE}
  Limit = 1
  NoFile = NoFile
  Now = Now
SPECIFICATION GetSpec
PROPERTY
  ReplacedByWholeAlways
