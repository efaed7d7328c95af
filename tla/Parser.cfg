SPECIFICATION Spec
CONSTANTS
  p = p
  q = q
  r = r
  v = v
  Documents <- MCDocuments
  Nodes <- MCNodes
  Values <- MCValues
  NoValue = none
  Lines = 3
  Ends <- MCEnds
  MaxSteps = 4
INVARIANT TypeOK
INVARIANT FollowsThePath
INVARIANT FollowsTheSegments
INVARIANT RefusedForAReason
INVARIANT LineRight
PROPERTY Finishes
CHECK_DEADLOCK FALSE
