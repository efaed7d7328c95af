SPECIFICATION HBSpec
CONSTANTS
  m = m
  a = a
  b = b
  none = none
  x = x
  y = y
  novar = novar
  Threads <- MCThreads
  Main = m
  NoThread = none
  Vars <- MCVars
  NoVar = novar
  Slots <- MCSlots
  Scripts = {"revisit"}
  Cases <- MCCases
  Code <- MCCode
PROPERTY Confirmed
