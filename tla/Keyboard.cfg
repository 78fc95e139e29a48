SPECIFICATION Spec
CONSTANTS
  Keys = {"lshift", "rshift", "lctrl", "rctrl", "alt", "caps", "num", "a", "c", "e", "f", "q", "t", "digit2", "keypad2", "down"}
  MAXHELD = 2
  MAXQUEUE = 3
INVARIANTS
  NoStuckModifier
  KInv
PROPERTIES
  CommandsMeant
  ControlCExits
