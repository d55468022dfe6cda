SPECIFICATION KbSpec
CONSTANTS
  BufSize = 4
  MAX_HISTORY = 2
  Letters = {"a", "b"}
  Symbols = {}
  Shifted <- MCShifted
  NUL = "NUL"
  Codes = {"extended", "up", "down", "left", "right", "home", "end", "delete"}
INVARIANTS KbTypeOK LineIsTerminated HistoryIndexNamesEntry
PROPERTY ImplementsLineEditor
