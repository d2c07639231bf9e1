\* Two clients, an interval of one tick and a lock that lasts two.
SPECIFICATION Spec
CONSTANTS
  slow = slow
  Clients = {fast, slow}
  None = None
  Settings <- AllSettings
  Update = 1
  Expire = 2
  Retries = 2
  MaxUnread = 2
INVARIANTS LockIsHeld AnswersBounded
PROPERTIES CallsReturn GivenBack
