SPECIFICATION MCSpec
CONSTANTS
  SpaceBytes = 131072
  ProcessorN = 32
  AddressSize = 20
  WordBits = 4
  CodeBegin = 65536
  CodeLimit = 524288
  ByteShift = 0
  MemoryBytes = 8
  DataBegin = 524288
  JumpCapacity = 16
  Cases <- MCCases
  Starts = {0, 17}
  InputValues <- MCInputValues
  FlagSets <- MCFlagSets
  MemoryBits <- MCMemoryBits
  Names = {"f", "g", "h"}
  Main = "f"
  LayerRoom = 2
  JumpRoom = 10
  CallRoom = 2
  Locals = {"h"}
  Frames = 2
  Statements <- MCStatements
  Words <- MCWords
  Ops = {"add", "xor", "mov"}
  Operands <- MCOperands
  OpTables <- MCTables
  Temporary = 524368
  Carry = 524370
  Zeros <- MCZeros
  Inputs <- MCInputs
  MaxCalls = 3
  MaxText = 5
INVARIANTS Computed EndsInTime InStep Refuses
PROPERTY Implements
CHECK_DEADLOCK FALSE
