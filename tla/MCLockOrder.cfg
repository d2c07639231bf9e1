\* Every handler, as root and as a user, orderly calls and others: three workers.
SPECIFICATION Spec
CONSTANTS
  Workers = {w1, w2, w3}
  Names = {na, nb}
  None = None
  Settings <- AllSettings
SYMMETRY Symmetry
INVARIANTS NoDeadlock CyclesKnown
\* Calls that are not orderly do deadlock: see CyclesKnown.
CHECK_DEADLOCK FALSE
