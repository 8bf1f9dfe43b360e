SPECIFICATION Spec
CONSTANTS
  MaxProcs = 1
  KbCap = 2
  WaitTicks = 2
  Calls = {"work", "read", "waitpid", "net"}
  Execers = {}
PROPERTIES ContextPreserved ReadReturns NetReturns
