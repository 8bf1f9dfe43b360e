SPECIFICATION Spec
CONSTANTS
  MaxProcs = 3
  KbCap = 1
  WaitTicks = 1
  Calls = {"waitpid", "exec", "exit"}
  Execers = {1}
PROPERTIES WaitpidReturns
