CONSTANTS
  FilesMax = 2
  FdCount = 5
  PathMax = 1
  SizeMax = 2
  OpenMax = 1
  RawPaths <- MCRawPaths
  FlagSets <- MCFlagSets
  Counts = {1, 3}
  Texts <- MCTexts
  AccessModes <- MCAccessModes
  Offsets <- MCOffsets
  Packets <- MCPackets
  Bytes = {"t", "zero"}
  Zero = "zero"
  Junk = "junk"
  HalfRange = 16
  HeapBytes = 13
  ClockMax = 2
  Descriptors <- MCDescriptors
  OpenModes <- MCOpenModes
  Questions = {"avphys", "constant", "other"}
  StreamCounts = {0, 2, 3}
SPECIFICATION MCSpec
INVARIANTS NoDangling BreakExact
PROPERTIES InputsStay ImplementsTree
