CONSTANTS
  Magic = 9
  ArgMax = 5
  LengthMax = 2
  JobMax = 14
  Blobs <- MCBlobs
  Jobs <- MCJobs
  Streams <- MCStreams
  Packets <- MCPackets
  AnswerMagic = 9
  CaptureLimit = 3
  Texts <- MCTexts
  Missing <- MCMissing
  Lowering <- MCLowering
  Statuses = {0, 1, 9}
  Files <- MCFiles
  Images <- MCImages
  Option <- MCOption
  ArgumentMax = 1
  ObjectMax = 1
  Invalid <- MCInvalid
  SpaceBytes = 1100
  ProcessorN = 3
  Scenarios <- MCScenarios
  Feed = 3
  TraceCapacity = 12
SPECIFICATION MCSpec
INVARIANTS OnePacket GoodJobsPass WholeOrNothing ExitTells RunsAsAsked StaysInBudget TraceReplays BootLoads
PROPERTIES AgreesWithIsa RefusedLeaves
CHECK_DEADLOCK FALSE
