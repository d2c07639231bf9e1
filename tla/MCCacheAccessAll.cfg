\* Two workers, two files, everything that can happen.
SPECIFICATION Spec
CONSTANTS
  a = a
  b = b
  c = c
  na = na
  nb = nb
  None = None
  Workers = {w1, w2}
  Paths = {a, b}
  Names = {na, nb}
  CacheName <- OwnName
  Fds = {f1, f2}
  Calls = {"truncate", "unlink", "mknod", "rename", "utimens", "remote", "gc", "crash", "nospace"}
  FreshFds = FALSE
  DistinctSeconds = FALSE
  MaxOpens = 2
  MaxWrites = 1
  MaxChanges = 1
SYMMETRY Symmetry
INVARIANT LockScope
