SPECIFICATION Spec
CONSTANT Runs = 4
CHECK_DEADLOCK FALSE
INVARIANT TypeOK
INVARIANT VerdictFits
INVARIANT StopsWhenDecided
PROPERTY Concludes
