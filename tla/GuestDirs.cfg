CONSTANTS
  FilesMax = 3
  FdCount = 4
  PathMax = 2
  SizeMax = 0
  OpenMax = 1
  RawPaths <- MCRawPaths
  FlagSets <- MCFlagSets
  Counts = {}
  Texts = {}
  AccessModes = {}
  Offsets = {}
  Packets = {}
  Bytes = {"zero"}
  Zero = "zero"
  Junk = "junk"
  Readers = {"r"}
SPECIFICATION DirSpec
INVARIANTS ScanIsExact FilesSeenOnce
