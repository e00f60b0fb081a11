SPECIFICATION MCSpec
CONSTANTS
  Names = {"a", "b", "c", "e"}
  Entry = "e"
  Capacities = {7, 20, 40}
  MaxObjects = 4
  Inputs <- MCLinked
  Archives <- MCArchives
  SectionNames <- MCNames
  Kind <- MCKind
  Labels = {"l"}
  First = 3
  Capacity = 10
  Depth = 1
  Counts = {1}
  Alignments = {4}
  MaxDirectives = 5
INVARIANTS BindsRight NeverSpurious DataPlaced
PROPERTIES Implements Ends
CHECK_DEADLOCK FALSE
