SPECIFICATION Spec
CONSTANTS
  Byte = {0, 1, 2}
  Zero = 0
  File <- MCFile
  Content <- MCContent
  Name <- MCName
  ChecksumList <- MCChecksumList
  MinSize = 9
  Excluded = {"banned"}
  Demanded = {}
  Setups <- MCFlushFails
  BufSize = 2
  UncompSize = 2
  Chunk <- MCChunk
  MaxImage = 8
INVARIANTS ImageDescribed
