\* Two workers, two files, the same local calls, and the collector.
SPECIFICATION Spec
CONSTANTS
  a = a
  b = b
  c = c
  na = na
  nb = nb
  None = None
  Workers = {w1, w2}
  Paths = {a, b}
  Names = {na, nb}
  CacheName <- OwnName
  Fds = {f1, f2}
  Calls = {"truncate", "unlink", "mknod", "gc"}
  FreshFds = TRUE
  DistinctSeconds = TRUE
  MaxOpens = 3
  MaxWrites = 2
  MaxChanges = 1
SYMMETRY Symmetry
 
PROPERTY ServesCurrent
