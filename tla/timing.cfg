CONSTANTS
  f1 = f1
  f2 = f2
  Ids <- MCIds
  Kinds <- MCKindsAll
  LogEventKinds <- MCDecodableLogEvents
  Deadline <- MCDeadline
  MaxTime <- MCTimingMaxTime
  MaxEmit <- MCTimingMaxEmit
SPECIFICATION Spec
INVARIANTS
  TypeOK
  PollNeverBlocks
  EvictionWithinOneSweep
PROPERTIES
  EvictOnlyWhenIdle
CHECK_DEADLOCK FALSE
