\* One request, two admin calls and Close, to the end.
CONSTANTS
  Requests = {r1}
  Keys = {k1}
  Accounts = {a1}
  Identities = {i1, i2}
  Ops = {o1, o2}
  OpKinds = {"disable"}
  Limits = {1}
  MayClose = TRUE
  None = None
SPECIFICATION FairSpec
PROPERTIES CanceledRequestsLeave AdminCallsReturn
