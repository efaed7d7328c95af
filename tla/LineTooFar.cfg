SPECIFICATION Spec
CONSTANTS
  p = p
  q = q
  r = r
  v = v
  Documents <- PastTheEnd
  Nodes <- MCNodes
  Values <- MCValues
  NoValue = none
  Lines = 3
  Ends <- MCEnds
  MaxSteps = 4
PROPERTY LookupEnds
CHECK_DEADLOCK FALSE
