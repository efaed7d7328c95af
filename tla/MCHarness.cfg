SPECIFICATION Spec
CONSTANTS
  m = m
  a = a
  b = b
  none = none
  x = x
  y = y
  novar = novar
  Threads <- MCThreads
  Main = m
  NoThread = none
  Vars <- MCVars
  NoVar = novar
  Slots <- MCSlots
  Scripts <- MCScripts
  Code <- MCCode
INVARIANT TypeOK
INVARIANT NoLostWakeup
INVARIANT YieldReturnsDue
INVARIANT OneInitialization
PROPERTY CounterMonotone
PROPERTY NoSegmentSkipped
PROPERTY ImplementsGate
PROPERTY Terminates
