\* A reconnect against one CancelLogin, account changes, a refresh and shutdown, to the end.
CONSTANTS
  MaxLogins = 1
  MaxRev = 2
  Cancelers = {c1}
  Events = {"reconnect", "disable", "enable", "close", "refresh"}
  None = None
SPECIFICATION FairSpec
INVARIANTS DrainedIsQuiet
PROPERTIES SignInSpec WaitsEnd
