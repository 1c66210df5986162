CONSTANTS
  f1 = f1
  f2 = f2
  Ids <- MCIds
  Kinds <- MCLogsKind
  LogEventKinds <- MCAllLogEvents
  Deadline <- MCDeliveryDeadline
  MaxTime <- MCDeliveryMaxTime
  MaxEmit <- MCDeliveryMaxEmit
SPECIFICATION Spec
PROPERTIES
  ImplementsPollingFilter
CHECK_DEADLOCK FALSE
