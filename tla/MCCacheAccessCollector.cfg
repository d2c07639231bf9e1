\* The collector runs while files are open.
SPECIFICATION Spec
CONSTANTS
  a = a
  b = b
  c = c
  na = na
  nb = nb
  None = None
  Workers = {w1, w2}
  Paths = {a, b}
  Names = {na, nb}
  CacheName <- OwnName
  Fds = {f1, f2}
  Calls = {"gc"}
  FreshFds = TRUE
  DistinctSeconds = TRUE
  MaxOpens = 2
  MaxWrites = 1
  MaxChanges = 1
SYMMETRY Symmetry
PROPERTY OpenFilesKept
