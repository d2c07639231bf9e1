\* One worker (-s), the local calls on one path that do not set the mtime; two of the
\* three paths share a name.  Descriptors do not run out: an open that fails for want of
\* one leaves a copy for which there is no entry, and the other path takes it for its own.
SPECIFICATION Spec
CONSTANTS
  a = a
  b = b
  c = c
  na = na
  nb = nb
  None = None
  Workers = {w1}
  Paths = {a, b, c}
  Names = {na, nb}
  CacheName <- SharedName
  Fds = {f1, f2, f3}
  Calls = {"truncate", "unlink", "mknod"}
  FreshFds = FALSE
  DistinctSeconds = TRUE
  MaxOpens = 3
  MaxWrites = 2
  MaxChanges = 2
SYMMETRY Symmetry
INVARIANTS   NoForeignData
