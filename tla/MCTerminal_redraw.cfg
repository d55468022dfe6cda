SPECIFICATION TSpec
CONSTANTS
  VGA_WIDTH = 4
  VGA_HEIGHT = 3
  PromptText <- MCPrompt
  Room = 4
  Columns = 10
  CHAR_H = 2
  FbHeights = {8}
  Chars = {"a", "b"}
  Outputs <- MCOutputs
PROPERTY RedrawDoesNothing
CHECK_DEADLOCK FALSE
