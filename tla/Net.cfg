SPECIFICATION NetSpec
CONSTANTS
  Hosts = {h1, h2}
  MACs = {m1, m2}
  Datagrams = {1, 2}
  CacheSize = 1
  Descriptors = 2
INVARIANTS
  CacheFollowsHosts 
PROPERTIES ReturnsNewest
SYMMETRY Symmetry
