\* Nested locks, as in rename, link and symlink: the invariants of the protocol, and that
\* with its fairness it implements NamedLock with its own.
SPECIFICATION Spec
CONSTANTS
  Threads = {t1, t2, t3}
  Names = {a, b}
  Free = free
  MaxLocks = 2
INVARIANTS MutualExclusion TableIsHeld NoLostWakeup
PROPERTY ImplementsNamedLock
