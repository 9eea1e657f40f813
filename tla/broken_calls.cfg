SPECIFICATION Spec
CONSTANTS
  Programs <- BrokenCalls
  AutoSize = 2
  MaxEvents = 3
PROPERTY Implements
CHECK_DEADLOCK FALSE
