CONSTANT Units <- Calls
SPECIFICATION Spec
INVARIANT ArgumentsTracked
CHECK_DEADLOCK FALSE
