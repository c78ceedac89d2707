\* Single calls of the memory functions, srprintf, enroll-config and the
\* conversions.
SPECIFICATION RoutinesSpec
CHECK_DEADLOCK FALSE
CONSTANTS
  Size = 7
  Memories <- MCMemories
  Calls <- MCCalls
  Prints <- MCPrints
  SIZE = 2
  BUFFER = 64
  Signature <- MCSignature
  SumLength = 2
  Sum <- MCSum
  Enrollments <- MCEnrollments
  NOB_DA_INIT_CAP = 2
  Texts <- MCTexts
  Commands <- MCCommands
  Appends <- MCAppends
  Writes <- MCWrites
  Streams <- MCStreams
  Values <- MCValues
  Sectors <- MCSectors
  Positions <- MCPositions
INVARIANTS
  CallCorrect
  Printed
  Enrolled
  ConversionsCorrect
