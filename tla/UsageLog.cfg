\* Three requests, pages and batches of one row, a filter bound between two milliseconds.
CONSTANTS
  Ids = {1, 2, 3}
  Profile <- MCProfile
  Milli = 2
  Bounds = {3}
  Limit = 1
  Batch = 1
  Retention = 1
  MaxNow = 4
SPECIFICATION Spec
INVARIANTS WalkIsComplete SummaryIsExact
PROPERTIES RetentionKeepsRecent
CHECK_DEADLOCK FALSE
