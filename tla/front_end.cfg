SPECIFICATION Spec
CONSTANTS
  MaxInt = 99
  Cases <- Programs
  Changes <- Near
INVARIANTS TokensBack RoundTrip Faithful
CHECK_DEADLOCK FALSE
