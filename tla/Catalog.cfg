\* Two accounts whose membership and credentials change, a caller that may leave and
\* come again, refreshes that may fail for ever, and Close.
CONSTANTS
  Accounts = {a1, a2}
  Callers = {c1}
  Jobs = {j1, j2, j3}
  Timeout = 1
  TTL = 2
  MaxFailures = 2
  Renewed = {a1}
  MaxCred = 2
  MaxChanges = 2
  MaxCalls = 2
  MayClose = TRUE
  None = None
SPECIFICATION FairSpec
INVARIANTS ModelsOfIdentity RefreshOwned
PROPERTIES OncePerTTL SnapshotReturns
