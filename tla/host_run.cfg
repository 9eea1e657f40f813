SPECIFICATION Spec
CONSTANTS
  file = file
  r1 = r1
  r2 = r2
  Runs = {r1, r2}
  Files = {file}
  Jobs <- SomeJobs
  Watches <- OffOrOne
  Returns <- ZeroAndNegative
  Broken = {1}
  MaxVersion = 2
INVARIANTS
  TypeOK
  FreshWithoutDaemon
PROPERTY Implements
CHECK_DEADLOCK FALSE
