\* Two copies and localfiles.csv, three days of which one is kept, a period of two files or
\* of 6 KBytes, and limits that take one copy, both or none.
SPECIFICATION Spec
CONSTANTS
  fa = fa
  fb = fb
  Files = {fa, fb, csv}
  IndexFile = csv
  Me = me
  Other = other
  None = none
  softLimitInKBytes = 3
  hardLimitInKBytes = 1
  GC_period_in_KBytes = 6
  GC_period_in_nFiles = 2
  KeepDays = 1
  Sizes = {1, 3}
  MaxCopies = 3
  MaxDay = 2
SYMMETRY Symmetry
INVARIANTS OldestFirst RoomMade
PROPERTIES OwnOnly DueOnly
