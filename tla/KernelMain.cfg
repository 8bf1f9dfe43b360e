SPECIFICATION MainSpec
CONSTANTS
  LOW = 2
  CAP = 14
  POOL = 8
  Word = 32
  Maps <- MCMaps
  TotalFrames = 14
  KernelPDEs = 4
  CountBound = 10
  Pids = {1, 2, 3, 4}
  Buses <- MCBuses
  Disks <- MCDisks
  Garbage <- Volumes
  MAX_DRIVERS = 2
  Space = 128
INVARIANTS
  LayoutSafe FrameOwnership PoolAccounted OwnPagesMapped DevicesAttached
