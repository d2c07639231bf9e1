\* Three handlers at a time, every build and every mode.
SPECIFICATION Spec
CONSTANTS
  Threads = {t1, t2, t3}
  None = None
  Uids <- SomeUids
  Settings <- AllSettings
INVARIANTS IdentityRestored RunsAsCaller MutexGivenBack
PROPERTY SwitchReturns
CHECK_DEADLOCK FALSE
