SPECIFICATION FairSpec
CONSTANTS
  Byte = {1, 2, 3, 4, 5, 6, 7, 8}
  Templates <- MCTemplates
  Jigdos <- MCJigdos
  MatchList <- MCMatchList
  Options <- MCOptions
  Disks <- MCDisks
  Unreadable <- MCUnreadable
  Rewrites <- MCRewrites
  BufSize = 2
  Faults = {"input", "write", "flush", "log"}
INVARIANTS TypeOK ImageRebuilt RangeWritten MissingListed
PROPERTIES Terminates
