\* From kstart to the first messages: answers missing and arrays that do not
\* fit, every kind of chip, an exception at any point of printing.
SPECIFICATION BringupSpec
CHECK_DEADLOCK FALSE
CONSTANTS
  Devices <- MCDevices
  MAX_HEAP_SIZE = 160
  INT_VALUES = 16
  Answers <- MCAnswers
  Greeting <- MCGreeting
  Progress <- MCProgress
  Report <- MCReport
  Typed = {65, 174}
INVARIANTS
  HeapSafe
  HandoverIntact
  LineCarriesText
PROPERTIES
  KmainIffPossible
  KmainDelivers
