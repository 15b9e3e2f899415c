SPECIFICATION Spec
CONSTANTS
  Byte = {1, 2, 3, 4, 5, 6, 7, 8}
  Templates <- MCGood
  Jigdos <- MCJigdo
  MatchList <- MCMatchList
  Options <- MCPlain
  Disks <- MCHonest
  Unreadable <- MCUnreadable
  Rewrites <- MCRewrites
  BufSize = 2
  Faults = {}
INVARIANTS NormallyChecked
