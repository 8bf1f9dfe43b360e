SPECIFICATION Spec
CONSTANTS
  Clusters = 7
  WordsPer = 2
  FilePaths <- NestedFiles
  DirPaths <- Directories
  Values = {"x"}
  Sizes = {1, 2}
  MaxCrashes = 1
INVARIANTS  ClustersAccounted ChainsEnd
