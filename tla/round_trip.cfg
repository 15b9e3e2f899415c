SPECIFICATION Spec
CONSTANTS
  Byte = {0, 1, 2}
  Zero = 0
  File <- MCFile
  Content <- MCContent
  Name <- MCName
  ChecksumList <- MCChecksumList
  MinSize = 2
  Excluded = {}
  Demanded = {}
  Setups <- MCSetups
  UncompSize = 2
  Chunk <- MCChunk
  MaxImage = 6
  MatchList <- MCMatchList
  Options <- MCOptions
  Disks <- MCDisks
  Unreadable <- MCUnreadable
  Rewrites <- MCRewrites
  Faults = {}
  Alg = "md5"
  OtherLists <- MCOtherLists
  Directories <- MCDirectories
  Below <- MCBelow
  GenArgs <- MCGenArgs
  Broken <- MCBroken
  ReadSize = 2
  Statuses = 4
  BUF_SIZE = 130
  FullDisk = TRUE
  BufSize = 2
  Part <- MCPart
  SumArgs <- MCSumArgs
  HeaderSize = 60
INVARIANTS TypeOK Rebuilt Readable DumpRight ExtractedRight CheckRight
PROPERTIES ToolsEnd
