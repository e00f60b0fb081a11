CONSTANTS
  FilesMax = 2
  FdCount = 4
  PathMax = 2
  SizeMax = 0
  OpenMax = 1
  RawPaths <- MCRawPaths
  FlagSets <- MCFlagSets
  Counts = {}
  Texts = {}
  AccessModes = {}
  Offsets = {}
  Packets = {}
  Bytes = {"zero"}
  Zero = "zero"
  Junk = "junk"
  Readers = {"r"}
SPECIFICATION DirSpec
INVARIANT SubdirectoriesOnce
