CONSTANTS
  f1 = f1
  f2 = f2
  Ids <- MCIds
  Kinds <- MCPendingKind
  LogEventKinds <- MCDecodableLogEvents
  Deadline <- MCDeliveryDeadline
  MaxTime <- MCReleaseMaxTime
  MaxEmit <- MCReleaseMaxEmit
SPECIFICATION FairSpec
PROPERTIES
  RemovedFilterReleased
CHECK_DEADLOCK FALSE
