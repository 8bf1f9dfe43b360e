SPECIFICATION Spec
CONSTANTS
  MaxProcs = 2
  KbCap = 1
  WaitTicks = 1
  Calls = {"read", "exec"}
  Execers = {1}
PROPERTIES ContextPreserved
