\* One request, more accounts than attempts, and an account change.
CONSTANTS
  Requests = {r1}
  Keys = {k1}
  Accounts = {a1, a2, a3, a4}
  Identities = {i1}
  Ops = {o1}
  OpKinds = {"disable", "delete", "enable"}
  Limits <- OnlyUnlimited
  MayClose = FALSE
  None = None
SPECIFICATION Spec
SYMMETRY Symmetry
INVARIANTS AccountQuiet RecordedOnce
PROPERTIES NoReplay NoInventedCompletion
