\* Two requests of one key against revocation, a limit change and Close.
CONSTANTS
  Requests = {r1, r2}
  Keys = {k1}
  Accounts = {a1}
  Identities = {i1, i2}
  Ops = {o1}
  OpKinds = {"revoke", "limit"}
  Limits = {0, 1}
  MayClose = TRUE
  None = None
SPECIFICATION Spec
SYMMETRY Symmetry
INVARIANTS RevocationComplete SlotAccounting CloseComplete
PROPERTIES AccessSpec
