CONSTANTS
  Bytes = 3
  Org = {"x", "y"}
  Content <- MCContent
  InitialMem <- MCInitialMem
  SpaceBytes = 7
  Widths = {1, 8, 24, 25, 31}
  Images <- MCImages
SPECIFICATION MCSpec
INVARIANTS CopiesSnapshot StaysInBounds ReadsField ReadsInside
PROPERTY ImplementsSnapshot
