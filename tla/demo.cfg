SPECIFICATION Spec
INVARIANT EndsWithPayload
PROPERTY StartedDemoEnds
\* The program ends.
CHECK_DEADLOCK FALSE
