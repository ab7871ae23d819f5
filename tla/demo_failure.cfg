SPECIFICATION Spec
INVARIANT FailureReturnsOne
CHECK_DEADLOCK FALSE
