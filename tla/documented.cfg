SPECIFICATION MCSpec
CONSTANT Programs <- Documented
INVARIANT AsDocumented
CHECK_DEADLOCK FALSE
