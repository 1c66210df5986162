CONSTANTS
  f1 = f1
  f2 = f2
  a1 = a1
  a2 = a2
  tA = tA
  tB = tB
  nil = nil
  NoBlock <- nil
  Ids <- MCQueryIds
  MaxHeight <- MCMaxHeight
  BlockContents <- MCBlockContents
  Criteria <- MCCriteria
  FilterCriteria <- MCFilterCriteria
SPECIFICATION Spec
INVARIANTS
  GetLogsAsSpecified
