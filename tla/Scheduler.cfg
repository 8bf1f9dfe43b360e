SPECIFICATION Spec
CONSTANTS
  MaxProcs = 2
  KbCap = 1
  WaitTicks = 1
  Calls = {"work", "read", "waitpid", "net", "exec", "exit"}
  Execers = {1, 2}
INVARIANTS ActiveIsCaller RunningIsCurrent OwnStackInRing3 
PROPERTIES ReadyRuns
