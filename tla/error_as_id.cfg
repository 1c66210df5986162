CONSTANTS
  c1 = c1
  c2 = c2
  c3 = c3
  errorText = errorText
  noId = noId
  Calls <- MCCalls
  Rate <- MCRate
  Burst <- MCBurst
  LimitedApis <- MCLimitedApis
  MaxTime <- MCMaxTime
  ErrorText <- errorText
  NoId <- noId
SPECIFICATION Spec
SYMMETRY MCSymmetry
CHECK_DEADLOCK FALSE
INVARIANTS
  ReturnedIdNamesFilter
