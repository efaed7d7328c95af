SPECIFICATION HBSpec
CONSTANTS
  m = m
  a = a
  b = b
  none = none
  x = x
  y = y
  novar = novar
  Threads <- MCThreads
  Main = m
  NoThread = none
  Vars <- MCVars
  NoVar = novar
  Slots <- MCSlots
  Scripts <- MCScripts
  Cases <- MCCases
  Code <- MCCode
INVARIANT ReplayOrder
INVARIANT ReportAfterReplay
INVARIANT NumberedInTime
INVARIANT UniqueLogicalIds
INVARIANT NothingMissed
INVARIANT RaceBehindSchedule
PROPERTY ConfirmedInTime
PROPERTY RaceShown
