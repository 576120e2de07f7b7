SPECIFICATION Spec
CONSTANTS
  Keys = {"a", "1", "left_shift", "right_shift", "left_ctrl", "right_ctrl",
          "caps_lock", "backspace", "enter", "left", "right", "keypad4", "keypad6",
          "f1", "f2", "f4"}
INVARIANTS NoStuckModifier KeyMeansCall
PROPERTIES CodesTaken
