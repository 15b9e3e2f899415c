SPECIFICATION FairSpec
CONSTANTS
  NUM_CHECKSUMS = 4
  Enabled <- MCEnabledAll
  Block = {b1, b2}
  Empty = empty
  Reused = reused
  NoDigest = nodigest
  MaxUpdates = 2
INVARIANTS TypeOK BufferStable DigestsAgree NoThreadLeaked
PROPERTIES LogSpec CallsReturn
