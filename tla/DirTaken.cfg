CONSTANTS
  FilesMax = 2
  FdCount = 4
  PathMax = 2
  SizeMax = 0
  OpenMax = 1
  RawPaths <- MCManyPaths
  FlagSets <- MCFlagSets
  Counts = {}
  Texts = {}
  AccessModes = {}
  Offsets = {}
  Packets <- MCPackets
  Bytes = {"zero"}
  Zero = "zero"
  Junk = "junk"
  Readers = {"r"}
SPECIFICATION DirSpec
INVARIANT DirectoriesStay
