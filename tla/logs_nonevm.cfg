CONSTANTS
  s1 = s1
  s2 = s2
  Subs <- MCSubs
  Kinds <- MCLogsKind
  LogEventKinds <- MCAllLogEvents
  MaxEmit <- MCMaxEmit
SPECIFICATION Spec
INVARIANTS
  EndsOnlyWhenAsked
CHECK_DEADLOCK FALSE
