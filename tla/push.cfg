CONSTANTS
  s1 = s1
  s2 = s2
  Subs <- MCSubs
  Kinds <- MCKinds
  LogEventKinds <- MCAllLogEvents
  MaxEmit <- MCMaxEmit
SPECIFICATION FairSpec
INVARIANTS
  NotifiedInOrder
PROPERTY
  LeftClientReleased
CHECK_DEADLOCK FALSE
