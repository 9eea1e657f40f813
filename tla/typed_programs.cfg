SPECIFICATION MCSpec
CONSTANT Programs <- Families
INVARIANTS AcceptedCompiles NoTypeFault CallersOperands InsideFunction CodeFits MeansTheSame NoDangling
CHECK_DEADLOCK FALSE
