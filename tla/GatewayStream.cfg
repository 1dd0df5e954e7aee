\* One request whose provider, client and context may fail at any point.
CONSTANTS
  Indexes = {0, 1}
  Sizes = {1, 2}
  MaxPayload = 2
  MaxSeq = 1
  MaxEvents = 2
SPECIFICATION FairSpec
INVARIANTS WriterQuiet RecordIsTrue
PROPERTIES ResponseSpec AbortSticks HandlerReturns
