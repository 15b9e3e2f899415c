SPECIFICATION Spec
CONSTANTS
  Byte = {0, 1, 2}
  Zero = 0
  File <- MCFile
  Content <- MCContent
  Name <- MCName
  ChecksumList <- MCChecksumList
  MinSize = 2
  Excluded = {"banned"}
  Demanded = {"other"}
  Setups <- MCSetups
  BufSize = 2
  UncompSize = 2
  Chunk <- MCChunk
  MaxImage = 11
INVARIANTS TypeOK ImageTracked ImageDescribed ImageSummed DescTrue
