SPECIFICATION FairSpec
CONSTANTS
  NumFiles = 3
  Blocks <- MCBlocks
  Unopenable = {3}
  Failing = {2}
  QSIZE = 2
  MaxContexts = 3
INVARIANTS TypeOK NoOverwrite DigestIsPrefix NotBothAsleep
PROPERTIES LinesSpec AllFilesSummed
