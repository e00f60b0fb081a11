CONSTANTS
  SpaceBytes = 16
  ProcessorN = 4
  AddressSize = 7
  Files <- MCFiles
  Input <- MCInput
  OutputSize = 2
  Limits = {0, 1, 2}
  NoLimit = NoLimit
  MaxTicks = 2
SPECIFICATION Spec
INVARIANTS ReasonIsTrue StatusesArrive InputLands
PROPERTIES LimitedRunsEnd ImplementsTicks
