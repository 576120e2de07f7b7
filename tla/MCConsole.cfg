SPECIFICATION Spec
CONSTANTS
  SCREEN_WIDTH = 3
  SCREEN_HEIGHT = 2
  MAX_SCREENS = 2
  Chars = {"a", "A"}
  Outputs <- MCOutputs
  MaxInput = 4
  MaxKeys = 8
INVARIANTS TypeOK CommandIsLine LineShown
