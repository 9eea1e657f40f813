SPECIFICATION Spec
CONSTANTS
  MaxInt = 99
  Cases <- Documented
  Changes <- NoChanges
INVARIANT AsShown
CHECK_DEADLOCK FALSE
