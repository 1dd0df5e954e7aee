\* Any database file, two connections, and up to two faults.
CONSTANTS
  Conns = {c1, c2}
  MaxJobs = 2
  MaxFaults = 2
SPECIFICATION FairSpec
INVARIANTS StoreClosedLast
PROPERTIES SchemaSafe Migrates StopReturns
