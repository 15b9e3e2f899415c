SPECIFICATION FairSpec
CONSTANTS
  File = {1, 2, 3}
  Content = {"x", "y", "z"}
  Base <- MCBase
  Mirrors <- MCMirrors
  Jigdo <- MCJigdo
  Keywords = {"Debian"}
  Lists = {"L", "M"}
  Listings <- MCListings
  Archives <- MCArchives
  Trees <- MCTrees
  Options <- MCOptions
  Ignore = {1}
  MinUnique = 2
  MaxFaults = 2
INVARIANTS TypeOK Accounted BackrefRight WrongReported
PROPERTIES NeededKept ConfLast Converges
CHECK_DEADLOCK FALSE
