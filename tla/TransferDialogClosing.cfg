SPECIFICATION Spec
INVARIANT CloseIsSafe
CHECK_DEADLOCK FALSE
