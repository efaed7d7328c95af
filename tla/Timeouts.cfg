SPECIFICATION SafeSpec
CONSTANT Runs = 4
CHECK_DEADLOCK FALSE
INVARIANT StrictAlways
