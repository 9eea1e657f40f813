SPECIFICATION MCSpec
CONSTANTS
  Programs <- MCPrograms
  Sources <- MCSources
  Statements <- MCStatements
  Expressions <- MCExpressions
  Null = Null
  MaxAnswers = 2
INVARIANTS
  TypeOK
  HandlersLive
  TargetsInCode
  GroupsOK
  HandlersNested
  StackFloor
  GeneratedFits
  GeneratedCloses
  MakesTheProgram
PROPERTY Termination
