SPECIFICATION MCSpec
CONSTANTS
  none = none
  bad = bad
  Shared = TRUE
  Trace = TRUE
  Lengths <- MCLengths
  MaxWords = 3
  p1 = p1
  Programs <- MCPrograms
  NumChannels = 2
  Lists <- MCLists
  Wanted <- MCWanted
  MaxId = 3
  MaxTokens = 3
INVARIANTS SettingsDeclared AcceptedRuns CoursesKept
CHECK_DEADLOCK FALSE
