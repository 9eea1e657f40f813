SPECIFICATION GuiSpec
CONSTANTS
  Programs <- BrokenPromises
  Null = Null
  MaxAnswers = 2
PROPERTY AsPromised
