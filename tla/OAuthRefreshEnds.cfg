\* A caller against a reconnect, a deletion and shutdown, to the end.
CONSTANTS
  Callers = {c1}
  MaxCalls = 2
  Jobs = {j1, j2}
  MaxCred = 1
  MaxRev = 1
  Events = {"reconnect", "delete", "close"}
  None = None
SPECIFICATION FairSpec
INVARIANTS DrainedIsQuiet
PROPERTIES CallsReturn NothingStaleServed
