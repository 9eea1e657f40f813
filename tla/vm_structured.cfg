SPECIFICATION GuiSpec
CONSTANTS
  Programs <- PromisedPrograms
  Null = Null
  MaxAnswers = 3
INVARIANT OwnHandlers
PROPERTIES
  AsPromised
  CallerHandlersKept
  WaitersHandlersKept
  EndsOrWaits
