SPECIFICATION Spec
CONSTANTS
  Tokens = {"/", ".", "..", "it", "d"}
  Args <- Typed
  DirPaths <- Directories
  FilePaths <- Files
  FirstFiles <- OneLong
  PathMax = 8
  NanoMax = 2
  LongFile = 3
INVARIANTS PathsAbsolute 
  
