\* A working chip, and somebody typing while it is set up (serial.c:21).
SPECIFICATION BringupSpec
CHECK_DEADLOCK FALSE
CONSTANTS
  Devices <- MCGoodDevice
  MAX_HEAP_SIZE = 160
  INT_VALUES = 16
  Answers <- MCAnswers
  Greeting <- MCGreeting
  Progress <- MCProgress
  Report <- MCReport
  Typed = {65, 174}
INVARIANTS
  HealthyChipAccepted
