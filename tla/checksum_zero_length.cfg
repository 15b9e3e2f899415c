SPECIFICATION FairSpec
CONSTANTS
  NUM_CHECKSUMS = 4
  Enabled <- MCEnabled
  Block = {b1, empty}
  Empty = empty
  Reused = reused
  NoDigest = nodigest
  MaxUpdates = 2

PROPERTIES CallsReturn
