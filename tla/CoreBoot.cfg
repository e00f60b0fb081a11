CONSTANTS
  SpaceBytes = 32768
  ProcessorN = 4
  AddressSize = 18
  Files <- MCFiles
  Input <- MCInput
  OutputSize = 3
  Limits = {}
  NoLimit = NoLimit
  MaxTicks = 1
  Message <- MCMessage
  Waiting = {0, 27, 28, 55, 56}
SPECIFICATION BootSpec
INVARIANT RecordsStart
PROPERTY BootEnds
