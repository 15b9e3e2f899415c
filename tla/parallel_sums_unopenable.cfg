SPECIFICATION Spec
CONSTANTS
  NumFiles = 2
  Blocks <- MCBlocksTwo
  Unopenable = {1}
  Failing = {}
  QSIZE = 2
  MaxContexts = 3
INVARIANTS EveryReadableFileSummed
