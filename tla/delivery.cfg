CONSTANTS
  f1 = f1
  f2 = f2
  Ids <- MCOneId
  Kinds <- MCReturningKinds
  LogEventKinds <- MCDecodableLogEvents
  Deadline <- MCDeliveryDeadline
  MaxTime <- MCReleaseMaxTime
  MaxEmit <- MCDeliveryMaxEmit
SPECIFICATION FairSpec
PROPERTIES
  ImplementsPollingFilter
  RemovedFilterReleased
CHECK_DEADLOCK FALSE
