SPECIFICATION Spec
CONSTANTS
  MAX_STEPS = 64
  Absent = Absent
  Keys = {1, 2, 3, 4, 5}
  Group <- CommonPrefix
  PageSizes = {0, 2}
  Limit = 3
  Others = {6, 7}
INVARIANTS ProofsMatchRoot AbsenceSound PagesCover
PROPERTY ListingEnds
