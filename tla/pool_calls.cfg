SPECIFICATION Spec
CONSTANTS
  Programs <- CallPrograms
  AutoSize = 2
  MaxEvents = 2
INVARIANTS
  TypeOK
  
  Served
PROPERTY Implements
