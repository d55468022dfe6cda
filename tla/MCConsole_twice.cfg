SPECIFICATION Spec
CONSTANTS
  BufSize = 3
  MAX_HISTORY = 1
  Letters = {"a"}
  Symbols = {}
  Shifted <- MCShifted
  NUL = "NUL"
  Codes = {"extended", "up", "down", "left", "right", "home", "end", "delete", "shift", "caps"}
PROPERTY EachLineRunsOnce
