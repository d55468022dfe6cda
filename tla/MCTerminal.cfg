SPECIFICATION TSpec
CONSTANTS
  VGA_WIDTH = 4
  VGA_HEIGHT = 3
  PromptText <- MCPrompt
  Room = 4
  Columns = 5
  CHAR_H = 2
  FbHeights = {8, 9}
  Chars = {"a", "b"}
  Outputs <- MCOutputs
INVARIANTS ScreenTypeOK LineShown OneCursorShown InFramebufferUntilScrolled
PROPERTIES EditingKeepsTranscript
CHECK_DEADLOCK FALSE
